---------------------------- MODULE Spec2Model ----------------------------
(***************************************************************************)
(* Any-angle shortest path search on a spherical navigation mesh           *)
(* (spherical Polyanya).  The model follows the TypeScript sources:        *)
(*   Vertex.ts (Vector), Mesh.ts (Mesh, Point), types.ts (Polygon),        *)
(*   PriorityQueue.ts, SearchNode.ts, SearchInstance.ts.                   *)
(*                                                                         *)
(* Number representation.  A Point is the direction of an integer          *)
(* 3-vector reduced by the gcd of its components, so that two Points are   *)
(* the same direction exactly when the tuples are equal, and every sign    *)
(* test of the kernel (orientation, boundedness, zero cross product) is    *)
(* computed exactly.  Angles and distances are fixed-point numbers in      *)
(* thousandths of a degree, computed from Q14 unit vectors.                *)
(***************************************************************************)
EXTENDS Integers, Sequences, FiniteSets, TLC

\* ------------------------------------------------------------------------
\* Small helpers
\* ------------------------------------------------------------------------
Abs(v) == IF v < 0 THEN -v ELSE v

Max2(a, b) == IF a >= b THEN a ELSE b

RECURSIVE GCD(_, _)
GCD(a, b) == IF b = 0 THEN a ELSE GCD(b, a % b)

\* 0-based indexing into a tuple, as the array accesses of the source
At(s, i) == s[i + 1]

\* Array.prototype.indexOf: first 0-based position of x, or -1
RECURSIVE IndexFrom(_, _, _)
IndexFrom(s, x, i) ==
    IF i > Len(s) THEN -1
    ELSE IF s[i] = x THEN i - 1
    ELSE IndexFrom(s, x, i + 1)

indexOf(s, x) == IndexFrom(s, x, 1)

\* a membership test that never finds the element
IncludesNever(s, x) == FALSE

\* Array.prototype.some(p => p.id === x)
Includes(s, x) == \E i \in 1..Len(s) : s[i] = x

\* ------------------------------------------------------------------------
\* Tolerance.  Sign tests are made on integers; an exact value v is compared
\* as Res * v against EPSILON, so that |v| < EPSILON iff v = 0.
\* ------------------------------------------------------------------------
EPSILON == 1

Res == 2

isZero(value) == Abs(Res * value) < EPSILON

\* ------------------------------------------------------------------------
\* Vector (Vertex.ts)
\* ------------------------------------------------------------------------
cross(a, b) == << a[2] * b[3] - a[3] * b[2],
                  a[3] * b[1] - a[1] * b[3],
                  a[1] * b[2] - a[2] * b[1] >>

dot(a, b) == a[1] * b[1] + a[2] * b[2] + a[3] * b[3]

scale(a, k) == << a[1] * k, a[2] * k, a[3] * k >>

subtract(a, b) == << a[1] - b[1], a[2] - b[2], a[3] - b[3] >>

vnegate(a) == << -a[1], -a[2], -a[3] >>

MaxAbs3(a) == Max2(Abs(a[1]), Max2(Abs(a[2]), Abs(a[3])))

\* Vector.norm, where the source tests it against zero: the largest
\* component, which is zero exactly when the Euclidean norm is
norm(a) == MaxAbs3(a)

\* ------------------------------------------------------------------------
\* Point (Mesh.ts)
\* ------------------------------------------------------------------------
\* the "no point" value of an unset variable
NoPoint == << 0, 0, 0 >>

\* Point.fromVector: the direction of a non-zero vector
fromVector(v) ==
    LET divide(w, g) == << w[1] \div g, w[2] \div g, w[3] \div g >>
    IN  divide(v, GCD(GCD(Abs(v[1]), Abs(v[2])), Abs(v[3])))

\* Point.equals: same latitude and longitude, i.e. same direction
equals(a, b) == a = b

\* Point.negate: the antipode
negate(p) == vnegate(p)

CLOCKWISE == "CLOCKWISE"

ANTICLOCKWISE == "ANTICLOCKWISE"

COLLINEAR == "COLLINEAR"

\* a vector reduced by the gcd of its components: the same direction with
\* the smallest integers; the sign of any product with it is unchanged
direction(v) == IF v = NoPoint THEN v ELSE fromVector(v)

\* the orientation told by the triple product (p1 x p2) . p3
orientationOf(d) ==
    IF Res * d > EPSILON THEN ANTICLOCKWISE
    ELSE IF Res * d < -EPSILON THEN CLOCKWISE
    ELSE COLLINEAR

\* Point.getOrientation
getOrientation(p1, p2, p3) ==
    IF equals(p1, p2) \/ equals(p1, p3) \/ equals(p2, p3) THEN COLLINEAR
    ELSE orientationOf(dot(direction(cross(p1, p2)), p3))

\* Point.isBounded: p lies on the minor arc from r to l
isBounded(p, r, l) ==
    IF equals(p, r) \/ equals(p, l) THEN TRUE
    ELSE IF equals(negate(p), r) \/ equals(negate(p), l) THEN FALSE
    ELSE LET rp == direction(cross(r, p))
             rl == direction(cross(r, l))
             lp == direction(cross(l, p))
             lr == direction(cross(l, r))
         IN  /\ Res * dot(rp, rl) >= -EPSILON
             /\ Res * dot(lp, lr) >= -EPSILON

\* Point.getIntersection: the two antipodal intersections of the great
\* circles through (p1,p2) and (p3,p4); << >> when the circles coincide
intersectionAlong(c3) ==
    IF isZero(norm(c3)) THEN << >>
    ELSE << fromVector(c3), fromVector(vnegate(c3)) >>

getIntersection(p1, p2, p3, p4) ==
    intersectionAlong(cross(direction(cross(p1, p2)),
                            direction(cross(p3, p4))))

\* ------------------------------------------------------------------------
\* Fixed-point trigonometry: angles in thousandths of a degree
\* ------------------------------------------------------------------------
\* one, in Q14
Q14 == 16384

\* a right angle, in thousandths of a degree
Deg90 == 90000

RECURSIVE IsqrtIter(_, _)
IsqrtIter(n, x) ==
    LET y == (x + (n \div x)) \div 2
    IN  IF y >= x THEN x ELSE IsqrtIter(n, y)

\* Math.sqrt on non-negative integers below 2^32, rounded down
Isqrt(n) == IF n < 2 THEN n ELSE IsqrtIter(n, 4 * Q14)

\* division rounding to nearest, for a positive divisor
RoundDiv(a, b) == IF a >= 0 THEN (a + (b \div 2)) \div b
                  ELSE -((-a + (b \div 2)) \div b)

\* bring the largest component of a non-zero integer vector near Q14
\* a vector divided by a positive number, each component rounded
RoundDiv3(a, d) == << RoundDiv(a[1], d), RoundDiv(a[2], d), RoundDiv(a[3], d) >>

PreScaleBy(a, m) ==
    IF m <= Q14 THEN scale(a, Q14 \div m)
    ELSE RoundDiv3(a, (m \div Q14) + 1)

PreScale(a) == PreScaleBy(a, MaxAbs3(a))

\* a vector of length about Q14 brought to length Q14
unit(u) == RoundDiv3(scale(u, Q14), Isqrt(dot(u, u)))

\* Vector.normalise: the unit vector, in Q14
normalise(a) == unit(PreScale(a))

\* Math.asin at 65 knots i/64, in thousandths of a degree
AsinTable ==
    << 0, 895, 1791, 2687, 3583, 4481, 5379, 6279, 7181, 8084, 8989, 9897,
       10807, 11720, 12636, 13555, 14478, 15404, 16335, 17270, 18210, 19155,
       20106, 21062, 22024, 22993, 23969, 24953, 25944, 26944, 27953, 28972,
       30000, 31039, 32090, 33153, 34229, 35319, 36424, 37544, 38682, 39838,
       41014, 42212, 43433, 44678, 45951, 47254, 48590, 49963, 51375, 52833,
       54341, 55907, 57538, 59246, 61045, 62952, 64992, 67202, 69636, 72388,
       75638, 79858, 90000 >>

\* width of one table interval for an argument in 0 .. 2 * Q14
AsinStep == 512

\* asin(c / (2 * Q14)) by linear interpolation, c in 0 .. 2 * Q14
AsinBetween(i, fr) ==
    IF fr = 0 THEN AsinTable[i + 1]
    ELSE AsinTable[i + 1]
         + RoundDiv((AsinTable[i + 2] - AsinTable[i + 1]) * fr, AsinStep)

AsinHalf(c) ==
    IF c > 2 * Q14 THEN Deg90
    ELSE AsinBetween(c \div AsinStep, c % AsinStep)

\* the angle subtended by a chord d between two unit vectors
chordAngle(d) == 2 * AsinHalf(Isqrt(dot(d, d)))

\* central angle between two non-zero vectors: 2 asin(chord / 2)
Angle(a, b) == chordAngle(subtract(normalise(a), normalise(b)))

\* Point.reflectPoint: p - 2 (p.N) N with N = r x l, N not normalised,
\* computed on the Q14 unit vectors of p, r and l.  Mesh vertices and the
\* start and end points carry unit vectors; an interval endpoint made by
\* getIntersection carries the unscaled cross product, and is taken here
\* by its direction, as every Point is.
reflectAcross(u, N) ==
    fromVector(subtract(u,
        RoundDiv3(scale(N, 2 * RoundDiv(dot(u, N), Q14)), Q14)))

reflectPoint(p, r, l) ==
    reflectAcross(normalise(p),
                  RoundDiv3(cross(normalise(r), normalise(l)), Q14))

\* Point.distance: 0 for equal points, else Point.cosDistance, the
\* great-circle distance in degrees
distance(a, b) == IF equals(a, b) THEN 0 ELSE Angle(a, b)

\* latitude asin(z / norm) and longitude atan2(y, x) of a Point
lat(p) == Deg90 - Angle(p, << 0, 0, 1 >>)

lon(p) ==
    IF p[1] = 0 /\ p[2] = 0 THEN 0
    ELSE IF p[2] < 0 THEN -Angle(<< p[1], p[2], 0 >>, << 1, 0, 0 >>)
    ELSE Angle(<< p[1], p[2], 0 >>, << 1, 0, 0 >>)

\* Point.isPolar
isPolar(p) == isZero(Abs(lat(p)) - Deg90)

\* quantise of Point.asKey: Math.round(val / EPSILON)
quantise(val) == RoundDiv(val, EPSILON)

\* Point.asKey: the pair of quantised latitude and longitude
asKey(p) == << quantise(lat(p)), quantise(lon(p)) >>

\* ------------------------------------------------------------------------
\* The mesh (Mesh.read): a square ring of eight triangles around a
\* diamond-shaped obstacle, one isolated triangle, and a second such ring
\* with a corridor that leaves it through its upper edge and runs down
\* beside it.  Vertex and polygon ids are 0-based as in the mesh file; -1 is
\* the obstacle.
\*
\*   vertices 0..3   outer square     vertices 4..7   diamond obstacle
\*   vertices 8..10  isolated triangle (polygon 8)
\*   vertices 11..14 second square    vertices 15..18 its diamond obstacle
\*   vertices 19..25 corridor (polygons 17..21; polygons 17 and 21 are
\*                   quadrilaterals)
\* ------------------------------------------------------------------------
ObstacleId == -1

\* Mesh._vertices: the Point of each vertex
MeshVertices ==
    << << -4, -3, 8 >>, << 2, -3, 8 >>, << 2, 3, 8 >>, << -4, 3, 8 >>,
       << -1, -1, 8 >>, << 0, 0, 1 >>, << -1, 1, 8 >>, << -1, 0, 4 >>,
       << 4, -3, 8 >>, << 6, -3, 8 >>, << 4, -1, 8 >>, << -4, 7, 8 >>,
       << 2, 7, 8 >>, << 2, 13, 8 >>, << -4, 13, 8 >>, << -1, 9, 8 >>,
       << 0, 5, 4 >>, << -1, 11, 8 >>, << -1, 5, 4 >>, << -4, 15, 8 >>,
       << 2, 15, 8 >>, << 3, 13, 8 >>, << 5, 13, 8 >>, << 5, 15, 8 >>,
       << 3, 7, 8 >>, << 5, 7, 8 >> >>

\* Vertex.polygons: the polygons around each vertex, anticlockwise
VertexPolygons ==
    << << 0, 7, 6, -1 >>, << 2, 1, 0, -1 >>, << 3, 2, -1, 4 >>,
       << 6, 5, 4, -1 >>, << 0, 1, -1, 7 >>, << 1, 2, 3, -1 >>,
       << 3, 4, 5, -1 >>, << 7, -1, 5, 6 >>, << 8, -1 >>, << 8, -1 >>,
       << 8, -1 >>, << 9, 16, 15, -1 >>, << 11, 10, 9, -1 >>,
       << 12, 11, -1, 18, 17, 13 >>, << 15, 14, 13, 17, -1 >>,
       << 9, 10, -1, 16 >>, << 10, 11, 12, -1 >>, << 12, 13, 14, -1 >>,
       << 16, -1, 14, 15 >>, << 17, -1 >>, << 18, 19, -1, 17 >>,
       << 21, 20, 19, 18, -1 >>, << 20, 21, -1 >>, << 20, -1, 19 >>,
       << 21, -1 >>, << 21, -1 >> >>

\* Polygon.vIndices: the vertex ring of each polygon, anticlockwise
PolygonVertices ==
    << << 0, 1, 4 >>, << 1, 5, 4 >>, << 1, 2, 5 >>, << 2, 6, 5 >>,
       << 2, 3, 6 >>, << 3, 7, 6 >>, << 3, 0, 7 >>, << 0, 4, 7 >>,
       << 8, 9, 10 >>, << 11, 12, 15 >>, << 12, 16, 15 >>,
       << 12, 13, 16 >>, << 13, 17, 16 >>, << 13, 14, 17 >>,
       << 14, 18, 17 >>, << 14, 11, 18 >>, << 11, 15, 18 >>,
       << 14, 13, 20, 19 >>, << 13, 21, 20 >>, << 21, 23, 20 >>,
       << 21, 22, 23 >>, << 24, 25, 22, 21 >> >>

\* Polygon.neighbours: neighbours[i] lies across the edge that ends at
\* vertex i of the ring
PolygonNeighbours ==
    << << 7, -1, 1 >>, << 0, 2, -1 >>, << 1, -1, 3 >>, << 2, 4, -1 >>,
       << 3, -1, 5 >>, << 4, 6, -1 >>, << 5, -1, 7 >>, << 6, 0, -1 >>,
       << -1, -1, -1 >>, << 16, -1, 10 >>, << 9, 11, -1 >>,
       << 10, -1, 12 >>, << 11, 13, -1 >>, << 12, 17, 14 >>,
       << 13, 15, -1 >>, << 14, -1, 16 >>, << 15, 9, -1 >>,
       << -1, 13, 18, -1 >>, << 17, -1, 19 >>, << 18, 20, -1 >>,
       << 19, 21, -1 >>, << -1, -1, -1, 20 >> >>

NumPolygons == Len(PolygonVertices)

PolygonIds == 0 .. (NumPolygons - 1)

VertexIds == 0 .. (Len(MeshVertices) - 1)

\* the Point of a vertex id
VertexPoint(v) == At(MeshVertices, v)

\* Polygon.vertices[i % n] and Polygon.neighbours[i % n]
vIndices(poly) == At(PolygonVertices, poly)

neighbours(poly) == At(PolygonNeighbours, poly)

nVertices(poly) == Len(vIndices(poly))

PolyVertexId(poly, i) == At(vIndices(poly), i % nVertices(poly))

PolyVertex(poly, i) == VertexPoint(PolyVertexId(poly, i))

PolyNeighbour(poly, i) == At(neighbours(poly), i % nVertices(poly))

\* Vertex.setPolygons: a vertex is a corner when an obstacle is among its
\* polygons, ambiguous when two are
NumObstacles(v) ==
    Cardinality({ i \in 1..Len(At(VertexPolygons, v)) :
                    At(VertexPolygons, v)[i] = ObstacleId })

isCorner(v) == NumObstacles(v) >= 1

isAmbiguous(v) == NumObstacles(v) >= 2

\* ------------------------------------------------------------------------
\* Polygon.containsPoint (types.ts)
\* ------------------------------------------------------------------------
INSIDE == "INSIDE"

OUTSIDE == "OUTSIDE"

ON_EDGE == "ON_EDGE"

ON_VERTEX == "ON_VERTEX"

PolyContainment(t, adj, vs) == [type |-> t, adjPoly |-> adj, verts |-> vs]

RECURSIVE containsPointFrom(_, _, _, _)
\* a loop body that commits a pending edge before it looks at the vertex
containsPointAtEdgeFirst(poly, point, i, onEdge, orientation) ==
    IF onEdge
    THEN PolyContainment(ON_EDGE, PolyNeighbour(poly, i),
             << PolyVertexId(poly, i - 1), PolyVertexId(poly, i) >>)
    ELSE IF equals(point, PolyVertex(poly, i))
    THEN PolyContainment(ON_VERTEX, ObstacleId, << PolyVertexId(poly, i) >>)
    ELSE IF orientation = COLLINEAR
            /\ isBounded(point, PolyVertex(poly, i), PolyVertex(poly, i + 1))
    THEN containsPointFrom(poly, point, i + 1, TRUE)
    ELSE IF orientation = CLOCKWISE
    THEN PolyContainment(OUTSIDE, ObstacleId, << >>)
    ELSE containsPointFrom(poly, point, i + 1, onEdge)

\* a loop body that takes the neighbour at the index of the edge's first
\* vertex
containsPointAtFirstIndex(poly, point, i, onEdge, orientation) ==
    IF equals(point, PolyVertex(poly, i))
    THEN PolyContainment(ON_VERTEX, ObstacleId, << PolyVertexId(poly, i) >>)
    ELSE IF onEdge
    THEN PolyContainment(ON_EDGE, PolyNeighbour(poly, i - 1),
             << PolyVertexId(poly, i - 1), PolyVertexId(poly, i) >>)
    ELSE IF orientation = COLLINEAR
            /\ isBounded(point, PolyVertex(poly, i), PolyVertex(poly, i + 1))
    THEN containsPointFrom(poly, point, i + 1, TRUE)
    ELSE IF orientation = CLOCKWISE
    THEN PolyContainment(OUTSIDE, ObstacleId, << >>)
    ELSE containsPointFrom(poly, point, i + 1, onEdge)

\* the body of the for loop at index i, where orientation is
\* Point.getOrientation(vertex, nextVertex, point)
containsPointAt(poly, point, i, onEdge, orientation) ==
    IF equals(point, PolyVertex(poly, i))
    THEN PolyContainment(ON_VERTEX, ObstacleId, << PolyVertexId(poly, i) >>)
    ELSE IF onEdge
    THEN PolyContainment(ON_EDGE, PolyNeighbour(poly, i),
             << PolyVertexId(poly, i - 1), PolyVertexId(poly, i) >>)
    ELSE IF orientation = COLLINEAR
            /\ isBounded(point, PolyVertex(poly, i), PolyVertex(poly, i + 1))
    THEN containsPointFrom(poly, point, i + 1, TRUE)
    ELSE IF orientation = CLOCKWISE
    THEN PolyContainment(OUTSIDE, ObstacleId, << >>)
    ELSE containsPointFrom(poly, point, i + 1, onEdge)

containsPointFrom(poly, point, i, onEdge) ==
    IF i >= nVertices(poly)
    THEN IF onEdge
         THEN PolyContainment(ON_EDGE, PolyNeighbour(poly, 0),
                  << PolyVertexId(poly, nVertices(poly) - 1),
                     PolyVertexId(poly, 0) >>)
         ELSE PolyContainment(INSIDE, ObstacleId, << >>)
    ELSE containsPointAt(poly, point, i, onEdge,
             getOrientation(PolyVertex(poly, i), PolyVertex(poly, i + 1),
                            point))

containsPoint(poly, point) == containsPointFrom(poly, point, 0, FALSE)

\* ------------------------------------------------------------------------
\* Mesh.getPointLocation (Mesh.ts)
\* ------------------------------------------------------------------------
IN_OBSTACLE == "IN_OBSTACLE"

IN_POLYGON == "IN_POLYGON"

ON_BORDER == "ON_BORDER"

ON_MESH_EDGE == "ON_EDGE"

ON_AMBIG_CORNER_VERTEX == "ON_AMBIG_CORNER_VERTEX"

ON_UNAMBIG_CORNER_VERTEX == "ON_UNAMBIG_CORNER_VERTEX"

ON_NON_CORNER_VERTEX == "ON_NON_CORNER_VERTEX"

PointLocation(t, ps, vs) == [type |-> t, polygons |-> ps, vertices |-> vs]

\* a filter that keeps every polygon
WithObstacle(s) == s

\* Array.prototype.filter(p => p.id !== -1)
RECURSIVE WithoutObstacle(_)
WithoutObstacle(s) ==
    IF s = << >> THEN << >>
    ELSE IF Head(s) = ObstacleId THEN WithoutObstacle(Tail(s))
    ELSE << Head(s) >> \o WithoutObstacle(Tail(s))

\* the location of a point on a vertex of the mesh
vertexLocation(v) ==
    PointLocation(
        IF isCorner(v)
        THEN IF isAmbiguous(v) THEN ON_AMBIG_CORNER_VERTEX
             ELSE ON_UNAMBIG_CORNER_VERTEX
        ELSE ON_NON_CORNER_VERTEX,
        WithoutObstacle(At(VertexPolygons, v)),
        << v >>)

RECURSIVE getPointLocationFrom(_, _)
\* the switch on result = polygon.containsPoint(p)
getPointLocationIn(p, poly, result) ==
    CASE result.type = OUTSIDE -> getPointLocationFrom(p, poly + 1)
      [] result.type = INSIDE -> PointLocation(IN_POLYGON, << poly >>, << >>)
      [] result.type = ON_EDGE ->
           IF result.adjPoly = ObstacleId
           THEN PointLocation(ON_BORDER, << poly >>, result.verts)
           ELSE PointLocation(ON_MESH_EDGE, << poly, result.adjPoly >>,
                              result.verts)
      [] result.type = ON_VERTEX -> vertexLocation(result.verts[1])

getPointLocationFrom(p, poly) ==
    IF poly >= NumPolygons THEN PointLocation(IN_OBSTACLE, << >>, << >>)
    ELSE getPointLocationIn(p, poly, containsPoint(poly, p))

getPointLocation(p) == getPointLocationFrom(p, 0)

\* ------------------------------------------------------------------------
\* SearchNode (SearchNode.ts).  A node is a record; parent is the index of
\* the parent node in the node store, 0 for null; a null vertex is -1.
\* Operations that can throw return a record whose err field is the
\* message, "" when nothing was thrown.
\* ------------------------------------------------------------------------
NoParent == 0

NoVertex == -1

NoError == ""

\* the h-value computed by the constructor
\* the three cases, for the goal or its reflection
heuristicTo(root, right, left, reflected) ==
    IF getOrientation(root, right, reflected) = CLOCKWISE
    THEN distance(root, right) + distance(right, reflected)
    ELSE IF getOrientation(root, left, reflected) = ANTICLOCKWISE
    THEN distance(root, left) + distance(left, reflected)
    ELSE distance(root, reflected)

heuristic(root, right, left, goal) ==
    IF equals(root, left) \/ equals(root, right) THEN distance(root, goal)
    ELSE heuristicTo(root, right, left,
             IF getOrientation(goal, right, left) = ANTICLOCKWISE
             THEN reflectPoint(goal, right, left)
             ELSE goal)

\* a constructor that asserts the next polygon only
constructorErrorOfNext(root, right, left, nextPolygon) ==
    IF nextPolygon = ObstacleId
    THEN "Next polygon must not be an obstacle"
    ELSE NoError

\* a constructor that asserts the orientation only
constructorErrorOfRoot(root, right, left, nextPolygon) ==
    IF getOrientation(root, right, left) = CLOCKWISE
    THEN "Root is on the right of edge"
    ELSE NoError

\* the two assertions of the constructor
constructorError(root, right, left, nextPolygon) ==
    IF getOrientation(root, right, left) = CLOCKWISE
    THEN "Root is on the right of edge"
    ELSE IF nextPolygon = ObstacleId
    THEN "Next polygon must not be an obstacle"
    ELSE NoError

\* new SearchNode(parent, root, right, left, rightVertex, leftVertex,
\*                nextPolygon, g, goal), when the assertions hold
SearchNode(parent, root, right, left, rightVertex, leftVertex, nextPolygon, g, goal) ==
    [ parent |-> parent, root |-> root, right |-> right, left |-> left,
      rightVertex |-> rightVertex, leftVertex |-> leftVertex,
      nextPolygon |-> nextPolygon, g |-> g,
      h |-> heuristic(root, right, left, goal) ]

\* an f-value that leaves out the last leg
fWithoutH(node) == node.g

\* SearchNode.f
f(node) == node.g + node.h

\* SearchNode.lt: smaller f first; on equal f the larger g first
lt(a, b) == IF f(a) = f(b) THEN a.g > b.g ELSE f(a) < f(b)

\* SearchNode.genFinalNode of the node stored at index id
\* the result of code that builds one node and may throw
BuiltNode(e, node) == [err |-> e, node |-> node]

\* the final node with the root and the g-value chosen by genFinalNode
finalNodeAt(node, id, goal, newRoot, g, e) ==
    IF e # NoError THEN BuiltNode(e, node)
    ELSE BuiltNode(NoError,
             SearchNode(id, newRoot, goal, goal, NoVertex, NoVertex,
                        node.nextPolygon, g, goal))

\* a final node that ignores the turn at the end of the interval
finalNodeForNoTurn(node, id, goal, rightAngle, leftAngle) ==
    finalNodeAt(node, id, goal, node.root, node.g, NoError)

\* the three cases of genFinalNode, for
\* rightAngle = getOrientation(root, right, goal) and
\* leftAngle = getOrientation(root, left, goal)
finalNodeFor(node, id, goal, rightAngle, leftAngle) ==
    IF rightAngle # ANTICLOCKWISE
    THEN finalNodeAt(node, id, goal, node.right,
             node.g + distance(node.root, node.right),
             constructorError(node.right, goal, goal, node.nextPolygon))
    ELSE IF leftAngle # CLOCKWISE
    THEN finalNodeAt(node, id, goal, node.left,
             node.g + distance(node.root, node.left),
             constructorError(node.left, goal, goal, node.nextPolygon))
    ELSE IF rightAngle = ANTICLOCKWISE /\ leftAngle = CLOCKWISE
    THEN finalNodeAt(node, id, goal, node.root, node.g,
             constructorError(node.root, goal, goal, node.nextPolygon))
    ELSE BuiltNode("Goal point is not visible from root point", node)

genFinalNode(node, id, goal) ==
    IF containsPoint(node.nextPolygon, goal).type = OUTSIDE
    THEN BuiltNode("Goal point is not yet in the next polygon", node)
    ELSE finalNodeFor(node, id, goal,
             getOrientation(node.root, node.right, goal),
             getOrientation(node.root, node.left, goal))

\* ------------------------------------------------------------------------
\* SearchNode.project: scan the perimeter of the next polygon from the
\* right end of the interval to the left end, and find where the right and
\* the left ray leave the polygon
\* ------------------------------------------------------------------------
\* an index that is not yet set
Undefined == -1

\* intersection.find(p => nextPolygon.containsPoint(p).type !== OUTSIDE)
findInside(poly, intersection) ==
    IF intersection = << >> THEN NoPoint
    ELSE IF containsPoint(poly, intersection[1]).type # OUTSIDE
    THEN intersection[1]
    ELSE IF containsPoint(poly, intersection[2]).type # OUTSIDE
    THEN intersection[2]
    ELSE NoPoint

\* the result of the right projection block; skip is the `continue`
Projected(st, skip) == [st |-> st, skip |-> skip]

\* the right projection block where the ray meets the edge at r, with
\* orientation = getOrientation(root, r, nextVertex)
projectRightAt(reversed, i, st, vertex, nextVertex, r, orientation) ==
    IF orientation = CLOCKWISE THEN Projected(st, TRUE)
    ELSE IF orientation = COLLINEAR
    THEN IF ~equals(r, nextVertex)
         THEN Projected([st EXCEPT !.err =
                  "Right intersection is not equal to next vertex"], FALSE)
         ELSE IF reversed
         THEN Projected([st EXCEPT !.newRightPoint = nextVertex,
                                   !.observableRange[1] = i + 1,
                                   !.nonObservableLeftRange[1] = i + 1],
                        FALSE)
         ELSE Projected([st EXCEPT !.newRightPoint = nextVertex,
                                   !.observableRange[1] = i + 1,
                                   !.nonObservableRightRange[2] = i + 1],
                        FALSE)
    ELSE IF reversed
    THEN Projected([st EXCEPT !.newRightPoint = r,
                              !.observableRange[1] = i,
                              !.nonObservableLeftRange[1] = i], FALSE)
    ELSE Projected([st EXCEPT !.newRightPoint = r,
                              !.observableRange[1] = i,
                              !.nonObservableRightRange[2] =
                                  IF equals(r, vertex) THEN i ELSE i + 1],
                   FALSE)

\* the right projection block for the intersection r found in the polygon
projectRightOn(node, reversed, i, st, intersection, r) ==
    IF intersection = << >>
    THEN IF reversed
         THEN Projected([st EXCEPT !.err =
                  "Right intersection should not be collinear"], FALSE)
         ELSE Projected([st EXCEPT
                  !.newRightPoint = PolyVertex(node.nextPolygon, i),
                  !.observableRange[1] = i,
                  !.nonObservableRightRange[2] = i], FALSE)
    ELSE IF r = NoPoint THEN Projected(st, TRUE)
    ELSE projectRightAt(reversed, i, st,
             PolyVertex(node.nextPolygon, i),
             PolyVertex(node.nextPolygon, i + 1), r,
             getOrientation(node.root, r,
                            PolyVertex(node.nextPolygon, i + 1)))

\* the right projection block for the two intersections of the right ray
\* with the great circle of the edge
projectRightWith(node, reversed, i, st, intersection) ==
    projectRightOn(node, reversed, i, st, intersection,
                   findInside(node.nextPolygon, intersection))

\* the right projection block of one iteration
projectRight(node, reversed, i, st) ==
    IF st.newRightPoint # NoPoint THEN Projected(st, FALSE)
    ELSE projectRightWith(node, reversed, i, st,
             getIntersection(node.root,
                             IF reversed THEN node.left ELSE node.right,
                             PolyVertex(node.nextPolygon, i),
                             PolyVertex(node.nextPolygon, i + 1)))

\* the left projection block where the ray meets the edge at l
projectLeftAt(reversed, i, st, nextVertex, l) ==
    IF equals(l, nextVertex)
    THEN IF reversed
         THEN [st EXCEPT !.newLeftPoint = nextVertex,
                         !.observableRange[2] = i + 1,
                         !.nonObservableRightRange[2] = i + 1]
         ELSE [st EXCEPT !.newLeftPoint = nextVertex,
                         !.observableRange[2] = i + 1,
                         !.nonObservableLeftRange[1] = i + 1]
    ELSE IF reversed
    THEN [st EXCEPT !.newLeftPoint = l,
                    !.observableRange[2] = i + 1,
                    !.nonObservableRightRange[2] = i + 1]
    ELSE [st EXCEPT !.newLeftPoint = l,
                    !.observableRange[2] = i + 1,
                    !.nonObservableLeftRange[1] = i]

\* the left projection block for the intersection l found in the polygon
projectLeftOn(node, reversed, i, st, intersection, l) ==
    IF intersection = << >>
    THEN IF reversed
         THEN [st EXCEPT
                  !.newLeftPoint = PolyVertex(node.nextPolygon, i + 1),
                  !.observableRange[2] = i + 1,
                  !.nonObservableRightRange[2] = i]
         ELSE [st EXCEPT
                  !.newLeftPoint = PolyVertex(node.nextPolygon, i + 1),
                  !.observableRange[2] = i + 1,
                  !.nonObservableLeftRange[1] = i + 1]
    ELSE IF l = NoPoint THEN st
    ELSE IF getOrientation(node.root, l, PolyVertex(node.nextPolygon, i))
                # CLOCKWISE
    THEN [st EXCEPT !.err =
             "Left intersection should not be collinear or anticlockwise"]
    ELSE projectLeftAt(reversed, i, st,
                       PolyVertex(node.nextPolygon, i + 1), l)

projectLeftWith(node, reversed, i, st, intersection) ==
    projectLeftOn(node, reversed, i, st, intersection,
                  findInside(node.nextPolygon, intersection))

\* the left projection block of one iteration
projectLeft(node, reversed, i, st) ==
    IF ~(st.newRightPoint # NoPoint /\ st.newLeftPoint = NoPoint) THEN st
    ELSE projectLeftWith(node, reversed, i, st,
             getIntersection(node.root,
                             IF reversed THEN node.right ELSE node.left,
                             PolyVertex(node.nextPolygon, i),
                             PolyVertex(node.nextPolygon, i + 1)))

\* one iteration: the left block runs unless the right block continued or
\* threw
projectBoth(node, reversed, i, rp) ==
    IF rp.skip \/ rp.st.err # NoError THEN rp.st
    ELSE projectLeft(node, reversed, i, rp.st)

\* the for loop: stops at the left index, at a throw, or at the break
RECURSIVE projectLoop(_, _, _, _, _)
projectLoop(node, reversed, i, leftLocalIndex, st) ==
    IF \/ i >= leftLocalIndex
       \/ st.err # NoError
       \/ (st.newRightPoint # NoPoint /\ st.newLeftPoint # NoPoint)
    THEN st
    ELSE projectLoop(node, reversed, i + 1, leftLocalIndex,
             projectBoth(node, reversed, i,
                         projectRight(node, reversed, i, st)))

\* the assertions after the loop, in their order
projectAsserts(st) ==
    IF st.err # NoError THEN st.err
    ELSE IF st.newRightPoint = NoPoint THEN "Right point is undefined"
    ELSE IF st.newLeftPoint = NoPoint THEN "Left point is undefined"
    ELSE IF st.observableRange[1] = Undefined
            \/ st.observableRange[2] = Undefined
    THEN "Observable range is undefined"
    ELSE IF ~(st.observableRange[1] < st.observableRange[2])
    THEN "Observable range is invalid"
    ELSE IF st.nonObservableRightRange[1] = Undefined
            \/ st.nonObservableRightRange[2] = Undefined
    THEN "Non-observable right range is undefined"
    ELSE IF st.nonObservableLeftRange[1] = Undefined
            \/ st.nonObservableLeftRange[2] = Undefined
    THEN "Non-observable left range is undefined"
    ELSE NoError

\* the projection with the outcome of its assertions
asserted(st) == [st EXCEPT !.err = projectAsserts(st)]

\* the loop from rightLocalIndex up to leftLocalIndex
projectBetween(node, reversed, rightLocalIndex, leftLocalIndex) ==
    asserted(projectLoop(node, reversed, rightLocalIndex, leftLocalIndex,
        [ err |-> NoError,
          newRightPoint |-> NoPoint,
          newLeftPoint |-> NoPoint,
          observableRange |-> << Undefined, Undefined >>,
          nonObservableRightRange |-> << rightLocalIndex, Undefined >>,
          nonObservableLeftRange |-> << Undefined, leftLocalIndex >> ]))

\* a projection whose scan ends one edge late, past the edge that the
\* interval lies on
projectThroughEntryEdge(node, reversed) ==
    projectBetween(node, reversed,
        indexOf(vIndices(node.nextPolygon), node.leftVertex) + 1,
        indexOf(vIndices(node.nextPolygon), node.leftVertex)
            + nVertices(node.nextPolygon) + 1)

project(node, reversed) ==
    projectBetween(node, reversed,
        indexOf(vIndices(node.nextPolygon), node.leftVertex) + 1,
        indexOf(vIndices(node.nextPolygon), node.leftVertex)
            + nVertices(node.nextPolygon))

\* ------------------------------------------------------------------------
\* SearchNode.splitSuccessors and SearchNode.genSuccessors
\* ------------------------------------------------------------------------
\* the result of code that builds a list of nodes and may throw
Built(e, s) == [err |-> e, successors |-> s]

\* Built lists in sequence: the first throw wins
Then(a, b) == IF a.err # NoError THEN a
              ELSE IF b.err # NoError THEN b
              ELSE Built(NoError, a.successors \o b.successors)

RECURSIVE splitSuccessorsFrom(_, _, _, _, _, _, _, _, _)
\* a split that takes the neighbour at the index of the edge's first
\* vertex as the next polygon
splitSuccessorsFromSameIndex(node, id, right, left, range, newRoot, goal, i, acc) ==
    IF i >= range[2] THEN Built(NoError, acc)
    ELSE LET poly == node.nextPolygon
             vertex == PolyVertex(poly, i)
             nextVertex == PolyVertex(poly, i + 1)
             rightPoint == IF i = range[1] THEN right ELSE vertex
             leftPoint == IF i = range[2] - 1 THEN left ELSE nextVertex
             nextPolygon == PolyNeighbour(poly, i)
             g == node.g + distance(node.root, newRoot)
             e == constructorError(newRoot, rightPoint, leftPoint,
                                   nextPolygon)
         IN  IF nextPolygon = ObstacleId
             THEN splitSuccessorsFrom(node, id, right, left, range, newRoot,
                                      goal, i + 1, acc)
             ELSE IF e # NoError THEN Built(e, acc)
             ELSE splitSuccessorsFrom(node, id, right, left, range, newRoot,
                      goal, i + 1,
                      Append(acc,
                          SearchNode(id, newRoot, rightPoint, leftPoint,
                                     PolyVertexId(poly, i),
                                     PolyVertexId(poly, i + 1),
                                     nextPolygon, g, goal)))

splitSuccessorsFrom(node, id, right, left, range, newRoot, goal, i, acc) ==
    IF i >= range[2] THEN Built(NoError, acc)
    ELSE LET poly == node.nextPolygon
             vertex == PolyVertex(poly, i)
             nextVertex == PolyVertex(poly, i + 1)
             rightPoint == IF i = range[1] THEN right ELSE vertex
             leftPoint == IF i = range[2] - 1 THEN left ELSE nextVertex
             nextPolygon == PolyNeighbour(poly, i + 1)
             g == node.g + distance(node.root, newRoot)
             e == constructorError(newRoot, rightPoint, leftPoint,
                                   nextPolygon)
         IN  IF nextPolygon = ObstacleId
             THEN splitSuccessorsFrom(node, id, right, left, range, newRoot,
                                      goal, i + 1, acc)
             ELSE IF e # NoError THEN Built(e, acc)
             ELSE splitSuccessorsFrom(node, id, right, left, range, newRoot,
                      goal, i + 1,
                      Append(acc,
                          SearchNode(id, newRoot, rightPoint, leftPoint,
                                     PolyVertexId(poly, i),
                                     PolyVertexId(poly, i + 1),
                                     nextPolygon, g, goal)))

\* a split that leaves out the first edge of the range
splitSuccessorsAfterFirst(node, id, right, left, range, newRoot, goal) ==
    splitSuccessorsFrom(node, id, right, left, range, newRoot, goal,
                        range[1] + 1, << >>)

splitSuccessors(node, id, right, left, range, newRoot, goal) ==
    splitSuccessorsFrom(node, id, right, left, range, newRoot, goal,
                        range[1], << >>)

\* successors that are pivoted around the ends of the interval whether or
\* not the ends are vertices that are corners
successorsOfAnyEnd(node, id, goal, p) ==
    IF p.err # NoError THEN Built(p.err, << >>)
    ELSE Then(Then(splitSuccessors(node, id, p.newRightPoint,
                                   p.newLeftPoint, p.observableRange,
                                   node.root, goal),
                   IF p.nonObservableRightRange[2]
                          > p.nonObservableRightRange[1]
                   THEN splitSuccessors(node, id,
                            VertexPoint(node.rightVertex), p.newRightPoint,
                            p.nonObservableRightRange, node.right, goal)
                   ELSE Built(NoError, << >>)),
              IF p.nonObservableLeftRange[2] > p.nonObservableLeftRange[1]
              THEN splitSuccessors(node, id, p.newLeftPoint,
                       VertexPoint(node.leftVertex),
                       p.nonObservableLeftRange, node.left, goal)
              ELSE Built(NoError, << >>))

\* the observable, right pivot and left pivot successors for the
\* projection p of the interval
successorsOf(node, id, goal, p) ==
    LET observable ==
            splitSuccessors(node, id, p.newRightPoint, p.newLeftPoint,
                            p.observableRange, node.root, goal)
        rightPivot ==
            IF /\ equals(node.right, VertexPoint(node.rightVertex))
               /\ isCorner(node.rightVertex)
               /\ p.nonObservableRightRange[2] > p.nonObservableRightRange[1]
            THEN splitSuccessors(node, id, VertexPoint(node.rightVertex),
                                 p.newRightPoint, p.nonObservableRightRange,
                                 node.right, goal)
            ELSE Built(NoError, << >>)
        leftPivot ==
            IF /\ equals(node.left, VertexPoint(node.leftVertex))
               /\ isCorner(node.leftVertex)
               /\ p.nonObservableLeftRange[2] > p.nonObservableLeftRange[1]
            THEN splitSuccessors(node, id, p.newLeftPoint,
                                 VertexPoint(node.leftVertex),
                                 p.nonObservableLeftRange, node.left, goal)
            ELSE Built(NoError, << >>)
    IN  IF p.err # NoError THEN Built(p.err, << >>)
        ELSE Then(Then(observable, rightPivot), leftPivot)

\* SearchNode.genSuccessors of the node stored at index id
genSuccessors(node, id, goal) ==
    IF node.rightVertex = NoVertex
    THEN Built("Right vertex is not set", << >>)
    ELSE IF node.leftVertex = NoVertex
    THEN Built("Left vertex is not set", << >>)
    ELSE successorsOf(node, id, goal,
             project(node,
                 containsPoint(node.nextPolygon, negate(node.root)).type
                     # OUTSIDE))

\* ------------------------------------------------------------------------
\* PriorityQueue (PriorityQueue.ts): a binary heap in an array, ordered by
\* the comparator of the search, (a, b) => a.lt(b)
\* ------------------------------------------------------------------------
top == 0

parent(i) == ((i + 1) \div 2) - 1

left(i) == (2 * i) + 1

right(i) == 2 * (i + 1)

size(heap) == Len(heap)

\* an emptiness test that never reports an empty heap
neverEmpty(heap) == FALSE

isEmpty(heap) == size(heap) = 0

\* _greater(i, j), with the comparator of the search
greater(heap, i, j) == lt(At(heap, i), At(heap, j))

\* a swap that copies the element at j over the element at i and leaves j
\* as it is
swapCopying(heap, i, j) == [heap EXCEPT ![i + 1] = heap[j + 1]]

\* _swap(i, j)
swap(heap, i, j) ==
    [heap EXCEPT ![i + 1] = heap[j + 1], ![j + 1] = heap[i + 1]]

RECURSIVE siftUpFrom(_, _)
siftUpFrom(heap, node) ==
    IF node > 0 /\ greater(heap, node, parent(node))
    THEN siftUpFrom(swap(heap, node, parent(node)), parent(node))
    ELSE heap

\* _siftUp()
siftUp(heap) == siftUpFrom(heap, size(heap) - 1)

\* a sift-down that leaves the heap as it is
siftDownNone(heap, node) == heap

RECURSIVE siftDownFrom(_, _)
siftDownFrom(heap, node) ==
    IF \/ (left(node) < size(heap) /\ greater(heap, left(node), node))
       \/ (right(node) < size(heap) /\ greater(heap, right(node), node))
    THEN LET maxChild ==
                 IF right(node) < size(heap)
                    /\ greater(heap, right(node), left(node))
                 THEN right(node)
                 ELSE left(node)
         IN  siftDownFrom(swap(heap, node, maxChild), maxChild)
    ELSE heap

\* _siftDown()
siftDown(heap) == siftDownFrom(heap, top)

\* push(value)
push(heap, value) == siftUp(Append(heap, value))

\* peek: this._heap[0] ?? null; null is the empty tuple.  The heap after
\* pop(), for a non-empty heap; the value returned by pop() is peek(heap)
peek(heap) == IF heap = << >> THEN << >> ELSE At(heap, top)

\* a pop that leaves the heap as it is
popKeepingTop(heap) == heap

pop(heap) ==
    LET bottom == size(heap) - 1
        swapped == IF bottom > 0 THEN swap(heap, top, bottom) ELSE heap
    IN  siftDown(SubSeq(swapped, 1, bottom))

\* a pop without its assertion
popErrorNever(heap) == NoError

\* the assertion of pop()
popError(heap) ==
    IF size(heap) > 0 THEN NoError
    ELSE "Cannot pop from an empty priority queue"

\* ------------------------------------------------------------------------
\* SearchInstance (SearchInstance.ts)
\* ------------------------------------------------------------------------
\* a node with its identity: its index in the node store
WithId(node, id) == [id |-> id] @@ node

\* push the nodes of a list, giving them the ids firstId, firstId + 1, ...
RECURSIVE pushAll(_, _, _)
pushAll(heap, list, firstId) ==
    IF list = << >> THEN heap
    ELSE pushAll(push(heap, WithId(Head(list), firstId)), Tail(list),
                 firstId + 1)

RECURSIVE storeAll(_, _)
storeAll(store, list) ==
    IF list = << >> THEN store
    ELSE storeAll(Append(store, WithId(Head(list), Len(store) + 1)),
                  Tail(list))

\* genInitNodes, inner loop: the initial nodes through the edges of one
\* polygon that contains the start
RECURSIVE initNodesOfPolygon(_, _, _, _, _)
\* an inner loop that does not skip the edges the start lies on
initNodesOfPolygonOnEdge(s, goal, polygon, i, acc) ==
    IF i >= nVertices(polygon) THEN Built(NoError, acc)
    ELSE IF PolyNeighbour(polygon, i + 1) = ObstacleId
    THEN initNodesOfPolygon(s, goal, polygon, i + 1, acc)
    ELSE initNodesOfPolygon(s, goal, polygon, i + 1,
             Append(acc,
                 SearchNode(NoParent, s, PolyVertex(polygon, i),
                            PolyVertex(polygon, i + 1),
                            PolyVertexId(polygon, i),
                            PolyVertexId(polygon, i + 1),
                            PolyNeighbour(polygon, i + 1), 0, goal)))

initNodesOfPolygon(s, goal, polygon, i, acc) ==
    IF i >= nVertices(polygon) THEN Built(NoError, acc)
    ELSE LET rv == PolyVertexId(polygon, i)
             lv == PolyVertexId(polygon, i + 1)
             nextPolygon == PolyNeighbour(polygon, i + 1)
             e == constructorError(s, VertexPoint(rv), VertexPoint(lv),
                                   nextPolygon)
         IN  IF /\ getOrientation(s, VertexPoint(rv), VertexPoint(lv))
                      = COLLINEAR
                /\ isBounded(s, VertexPoint(rv), VertexPoint(lv))
             THEN initNodesOfPolygon(s, goal, polygon, i + 1, acc)
             ELSE IF nextPolygon = ObstacleId
             THEN initNodesOfPolygon(s, goal, polygon, i + 1, acc)
             ELSE IF e # NoError THEN Built(e, acc)
             ELSE initNodesOfPolygon(s, goal, polygon, i + 1,
                      Append(acc,
                          SearchNode(NoParent, s, VertexPoint(rv),
                                     VertexPoint(lv), rv, lv, nextPolygon,
                                     0, goal)))

\* genInitNodes, outer loop over the polygons that contain the start;
\* final is << >> or the one-element list of the final node
\* what genInitNodes leaves behind: the nodes pushed, the final node if
\* one was made, and the message if it threw
InitNodes(e, successors, final) ==
    [err |-> e, successors |-> successors, final |-> final]

RECURSIVE genInitNodesFrom(_, _, _, _, _, _)
\* the outer loop after the inner loop over polygon polys[k] built b
genInitNodesNext(s, goal, endPolys, polys, k, b) ==
    IF b.err # NoError THEN InitNodes(b.err, b.successors, << >>)
    ELSE genInitNodesFrom(s, goal, endPolys, polys, k + 1, b.successors)

genInitNodesFrom(s, goal, endPolys, polys, k, acc) ==
    IF k > Len(polys) THEN InitNodes(NoError, acc, << >>)
    ELSE IF Includes(endPolys, polys[k])
    THEN InitNodes(constructorError(s, goal, goal, polys[k]), acc,
             << SearchNode(NoParent, s, goal, goal, NoVertex, NoVertex,
                           polys[k], 0, goal) >>)
    ELSE genInitNodesNext(s, goal, endPolys, polys, k,
             initNodesOfPolygon(s, goal, polys[k], 0, acc))

\* genInitNodes for pl = mesh.getPointLocation(start)
genInitNodesAt(s, goal, endPolys, pl) ==
    IF pl.type = IN_OBSTACLE THEN InitNodes(NoError, << >>, << >>)
    ELSE genInitNodesFrom(s, goal, endPolys, pl.polygons, 1, << >>)

genInitNodes(s, goal, endPolys) ==
    genInitNodesAt(s, goal, endPolys, getPointLocation(s))

\* getPath: the roots from the final node back to the start, without
\* consecutive repetitions, in front of the end point
RECURSIVE getPathFrom(_, _, _, _)
getPathFrom(store, current, last, path) ==
    IF current = NoParent THEN path
    ELSE IF ~equals(store[current].root, last)
    THEN getPathFrom(store, store[current].parent, store[current].root,
                     << store[current].root >> \o path)
    ELSE getPathFrom(store, store[current].parent, last, path)

\* a getPath that does not start from the end point
getPathWithoutEnd(store, node, goal) ==
    getPathFrom(store, node, goal, << >>)

getPath(store, node, goal) == getPathFrom(store, node, goal, << goal >>)

\* ------------------------------------------------------------------------
\* Scenarios (Scenario.ts): start and end points of the queries, on a
\* half-unit lattice of the chart in which the mesh is drawn
\* ------------------------------------------------------------------------
LatticePoint(x, y) == fromVector(<< x - 8, y - 6, 16 >>)

StartPoints ==
    { LatticePoint(7, 1), LatticePoint(6, 4), LatticePoint(1, 10),
      LatticePoint(3, 6), LatticePoint(17, 1), LatticePoint(2, 9),
      LatticePoint(12, 7), LatticePoint(6, 6), LatticePoint(8, 6),
      LatticePoint(3, 8), LatticePoint(0, 5), LatticePoint(3, 34),
      LatticePoint(0, 25) }

EndPoints ==
    { LatticePoint(16, 4), LatticePoint(7, 8), LatticePoint(10, 11),
      LatticePoint(11, 10), LatticePoint(6, 3), LatticePoint(8, 6),
      LatticePoint(10, 3), LatticePoint(3, 7), LatticePoint(6, 6),
      LatticePoint(2, 1), LatticePoint(7, 4), LatticePoint(14, 21) }

\* no search pops more nodes than this
MaxPops == 40

\* ------------------------------------------------------------------------
\* The search as a state machine
\* ------------------------------------------------------------------------
VARIABLES
    start,        \* SearchInstance._start
    end,          \* SearchInstance._end
    pc,           \* "start", "loop", "admit", "done", "error"; or "queue"; or
                  \* "geo", "located", "contained", "constructed", "rejected",
                  \* "compared";
                  \* or "driver", "crashed", "exited"
    endPolygons,  \* SearchInstance._endPolygons
    nodes,        \* every SearchNode that was pushed or made final
    openList,     \* SearchInstance._openList, the heap array
    history,      \* SearchInstance._history: root key -> g
    finalNode,    \* SearchInstance._finalNode: index in nodes, 0 when unset
    pending,      \* successors of the current expansion not yet examined
    result,       \* the value returned by search()
    error,        \* the message of the Error thrown, "" when none
    popped,       \* ids of the popped nodes, in order
    expanded,     \* ids of the nodes whose genSuccessors returned, in order
    seen,         \* << key, g >> of every successor examined so far
    returned      \* << v >> when the last queue operation was a pop that
                  \* returned v, << >> otherwise

vars == << start, end, pc, endPolygons, nodes, openList, history, finalNode,
           pending, result, error, popped, expanded, seen, returned >>

NoResult == [path |-> << >>, length |-> -1]

EmptyResult == [path |-> << >>, length |-> 0]

Init ==
    /\ start \in StartPoints
    /\ end \in EndPoints
    /\ pc = "start"
    /\ endPolygons = << >>
    /\ nodes = << >>
    /\ openList = << >>
    /\ history = << >>
    /\ finalNode = NoParent
    /\ pending = << >>
    /\ result = NoResult
    /\ error = NoError
    /\ popped = << >>
    /\ expanded = << >>
    /\ seen = {}
    /\ returned = << >>

\* search() after genInitNodes left init behind, up to the loop
SearchFrom(init) ==
    /\ openList' = pushAll(openList, init.successors, Len(nodes) + 1)
    /\ IF init.err # NoError
       THEN /\ error' = init.err
            /\ pc' = "error"
            /\ nodes' = storeAll(nodes, init.successors)
            /\ UNCHANGED << finalNode, result >>
       ELSE IF init.final # << >>
       THEN /\ nodes' = storeAll(nodes, init.successors \o init.final)
            /\ finalNode' = Len(nodes) + Len(init.successors) + 1
            /\ result' = [path |-> << start, end >>,
                          length |-> distance(start, end)]
            /\ pc' = "done"
            /\ UNCHANGED error
       ELSE /\ nodes' = storeAll(nodes, init.successors)
            /\ pc' = "loop"
            /\ UNCHANGED << finalNode, result, error >>

\* a search() without the early return for an end point in an obstacle
SearchInNoCheck(endPolys) ==
    /\ endPolygons' = endPolys
    /\ SearchFrom(genInitNodes(start, end, endPolys))

\* search() for the polygons endPolys of the end point
SearchIn(endPolys) ==
    /\ endPolygons' = endPolys
    /\ IF Len(endPolys) = 0
       THEN /\ result' = EmptyResult
            /\ pc' = "done"
            /\ UNCHANGED << nodes, openList, finalNode, error >>
       ELSE SearchFrom(genInitNodes(start, end, endPolys))

\* search(), up to the loop: the end polygons, genInitNodes, and the two
\* early returns
SearchStart ==
    /\ pc = "start"
    /\ SearchIn(getPointLocation(end).polygons)
    /\ UNCHANGED << start, end, history, pending, popped, expanded, seen,
                    returned >>

\* the loop finds the open list empty: break, and return the empty path
LoopBreak ==
    /\ pc = "loop"
    /\ finalNode = NoParent
    /\ isEmpty(openList)
    /\ result' = EmptyResult
    /\ pc' = "done"
    /\ UNCHANGED << start, end, endPolygons, nodes, openList, history,
                    finalNode, pending, error, popped, expanded, seen,
                    returned >>

\* the end of search() once genFinalNode built fin
Finish(fin) ==
    IF fin.err # NoError
    THEN /\ error' = fin.err
         /\ pc' = "error"
         /\ UNCHANGED << nodes, finalNode, result >>
    ELSE /\ nodes' = storeAll(nodes, << fin.node >>)
         /\ finalNode' = Len(nodes) + 1
         /\ result' = [path |-> getPath(storeAll(nodes, << fin.node >>),
                                        Len(nodes) + 1, end),
                       length |-> f(fin.node)]
         /\ pc' = "done"
         /\ UNCHANGED error

\* the popped node leads into an end polygon: genFinalNode, break, getPath
LoopFinal ==
    /\ pc = "loop"
    /\ finalNode = NoParent
    /\ ~isEmpty(openList)
    /\ popError(openList) = NoError
    /\ Len(popped) < MaxPops
    /\ Includes(endPolygons, peek(openList).nextPolygon)
    /\ openList' = pop(openList)
    /\ returned' = << peek(openList) >>
    /\ popped' = Append(popped, peek(openList).id)
    /\ Finish(genFinalNode(peek(openList), peek(openList).id, end))
    /\ UNCHANGED << start, end, endPolygons, history, pending, expanded,
                    seen >>

\* the loop body once genSuccessors of the popped node built its list
Expand(node, built) ==
    IF built.err # NoError
    THEN /\ error' = built.err
         /\ pc' = "error"
         /\ UNCHANGED << expanded, pending >>
    ELSE /\ expanded' = Append(expanded, node.id)
         /\ pending' = built.successors
         /\ pc' = IF built.successors = << >> THEN "loop" ELSE "admit"
         /\ UNCHANGED error

\* a loop body that expands the popped node without looking at its next
\* polygon
LoopExpandAny ==
    /\ pc = "loop"
    /\ finalNode = NoParent
    /\ ~isEmpty(openList)
    /\ Len(popped) < MaxPops
    /\ popError(openList) = NoError
    /\ openList' = pop(openList)
    /\ returned' = << peek(openList) >>
    /\ popped' = Append(popped, peek(openList).id)
    /\ Expand(peek(openList),
              genSuccessors(peek(openList), peek(openList).id, end))
    /\ UNCHANGED << start, end, endPolygons, nodes, history, finalNode,
                    result, seen >>

\* the popped node does not lead into an end polygon: genSuccessors; the
\* successors are then examined one by one
LoopExpand ==
    /\ pc = "loop"
    /\ finalNode = NoParent
    /\ ~isEmpty(openList)
    /\ Len(popped) < MaxPops
    /\ \/ popError(openList) # NoError
       \/ ~Includes(endPolygons, peek(openList).nextPolygon)
    /\ IF popError(openList) # NoError
       THEN /\ error' = popError(openList)
            /\ pc' = "error"
            /\ UNCHANGED << openList, popped, expanded, pending,
                            returned >>
       ELSE /\ openList' = pop(openList)
            /\ returned' = << peek(openList) >>
            /\ popped' = Append(popped, peek(openList).id)
            /\ Expand(peek(openList),
                      genSuccessors(peek(openList), peek(openList).id, end))
    /\ UNCHANGED << start, end, endPolygons, nodes, history, finalNode,
                    result, seen >>

\* a history test that turns away every successor whose root key is recorded
admitsNewOnly(hist, key, g) == key \notin DOMAIN hist

\* a history test that turns away a successor whose g equals the recorded g
admitsSmallerOnly(hist, key, g) == key \notin DOMAIN hist \/ hist[key] > g

\* a history test that admits every successor
admitsAlways(hist, key, g) == TRUE

\* the history admits a successor whose root has key `key` and g-value g:
\* !history.has(key) || history.get(key) >= successor.g
admits(hist, key, g) == key \notin DOMAIN hist \/ hist[key] >= g

\* history.set(key, g)
historySet(hist, key, g) ==
    [k \in (DOMAIN hist) \cup {key} |-> IF k = key THEN g ELSE hist[k]]

\* the body of the loop over the successors, for a successor with key
\* `key` that gets the identity id if it is pushed
AdmitAs(successor, key, id) ==
    /\ IF admits(history, key, successor.g)
       THEN /\ history' = historySet(history, key, successor.g)
            /\ openList' = push(openList, WithId(successor, id))
            /\ nodes' = Append(nodes, WithId(successor, id))
            /\ returned' = << >>
       ELSE UNCHANGED << history, openList, nodes, returned >>
    /\ seen' = seen \cup { << key, successor.g >> }

\* the loop over the successors, for the next successor
Admit ==
    /\ pc = "admit"
    /\ pending # << >>
    /\ AdmitAs(Head(pending), asKey(Head(pending).root), Len(nodes) + 1)
    /\ pending' = Tail(pending)
    /\ pc' = IF Tail(pending) = << >> THEN "loop" ELSE "admit"
    /\ UNCHANGED << start, end, endPolygons, finalNode, result, error,
                    popped, expanded >>

Next == SearchStart \/ LoopBreak \/ LoopFinal \/ LoopExpand \/ Admit

Spec == Init /\ [][Next]_vars

\* search() runs on one thread of control from its call to its return or
\* throw, so the step at the position it has reached is taken: the call
\* (genInitNodes, up to the loop or a return), the break of the while loop,
\* the iteration of the while loop that pops a node, and the iteration of
\* the for loop over the successors.  A position's step is named by its
\* guard and its first assignment, which tell it from every other step of
\* Next.
FairSpec ==
    /\ Init /\ [][Next]_vars
    /\ WF_pc(pc = "start" /\ pc' \in { "loop", "done", "error" })
    /\ WF_vars(LoopBreak)
    /\ WF_popped(/\ pc = "loop"
                 /\ finalNode = NoParent
                 /\ ~isEmpty(openList)
                 /\ Len(popped) < MaxPops
                 /\ popped' = Append(popped, peek(openList).id))
    /\ WF_pending(pc = "admit" /\ pending # << >>
                      /\ pending' = Tail(pending))

\* ------------------------------------------------------------------------
\* The priority queue on its own: any sequence of push and pop
\* ------------------------------------------------------------------------
\* largest number of queued nodes
MaxQueue == 5

\* the g- and h-values of the nodes pushed
QueueG == 0 .. 1

QueueH == 0 .. 2

InitPQ ==
    /\ start = NoPoint
    /\ end = NoPoint
    /\ pc = "queue"
    /\ endPolygons = << >>
    /\ nodes = << >>
    /\ openList = << >>
    /\ history = << >>
    /\ finalNode = NoParent
    /\ pending = << >>
    /\ result = NoResult
    /\ error = NoError
    /\ popped = << >>
    /\ expanded = << >>
    /\ seen = {}
    /\ returned = << >>

\* PriorityQueue.push of one node
PQPush ==
    /\ pc = "queue"
    /\ size(openList) < MaxQueue
    /\ \E g \in QueueG, h \in QueueH :
           openList' = push(openList, [g |-> g, h |-> h])
    /\ returned' = << >>
    /\ UNCHANGED << start, end, pc, endPolygons, nodes, history, finalNode,
                    pending, result, error, popped, expanded, seen >>

\* PriorityQueue.pop; on an empty queue its assertion throws
PQPop ==
    /\ pc = "queue"
    /\ IF popError(openList) # NoError
       THEN /\ error' = popError(openList)
            /\ pc' = "error"
            /\ UNCHANGED << openList, returned >>
       ELSE /\ returned' = << peek(openList) >>
            /\ openList' = pop(openList)
            /\ UNCHANGED << error, pc >>
    /\ UNCHANGED << start, end, endPolygons, nodes, history, finalNode,
                    pending, result, popped, expanded, seen >>

\* PriorityQueue.peek; the value it returned is kept in pending
PQPeek ==
    /\ pc = "queue"
    /\ pending' = << peek(openList) >>
    /\ UNCHANGED << start, end, pc, endPolygons, nodes, openList, history,
                    finalNode, result, error, popped, expanded, seen,
                    returned >>

SpecPQ == InitPQ /\ [][PQPush \/ PQPop \/ PQPeek]_vars

\* ------------------------------------------------------------------------
\* Properties
\* ------------------------------------------------------------------------
Last(s) == s[Len(s)]

\* search() has returned a non-empty path
ReturnedPath == pc = "done" /\ result.path # << >>

\* C1: every non-empty path returned by search begins with the start point
\* and ends with the end point.
C1_PathEndpoints ==
    ReturnedPath =>
        /\ Head(result.path) = start
        /\ Last(result.path) = end

\* a returned path with at least one turn between start and end
C1_Witness ==
    /\ ReturnedPath
    /\ Len(result.path) >= 3
    /\ Head(result.path) = start
    /\ Last(result.path) = end

\* the sum of the distances between consecutive points of a path
RECURSIVE PathLength(_)
PathLength(path) ==
    IF Len(path) < 2 THEN 0
    ELSE distance(path[1], path[2]) + PathLength(Tail(path))

\* C2: the length returned with a non-empty path equals the sum of
\* distance(p_i, p_i+1) over the consecutive points of the path.
C2_LengthIsSumOfLegs ==
    ReturnedPath => result.length = PathLength(result.path)

\* a returned path with two turns, found by the loop, whose length is the
\* sum of its three legs
C2_Witness ==
    /\ ReturnedPath
    /\ popped # << >>
    /\ Len(result.path) = 4
    /\ result.length = PathLength(result.path)
    /\ result.length > distance(start, end)

\* ------------------------------------------------------------------------
\* Paths that stay inside the traversable polygons.  A shortest such path
\* is a chain of great-circle arcs that turns only at corner vertices, so
\* the chains with turns at corners are the paths to compare with.
\* ------------------------------------------------------------------------
\* most turns of the chains compared with a returned path
MaxTurns == 2

\* rounding allowance when two lengths are compared, in thousandths of a
\* degree
LenTol == 50

\* the edges between a traversable polygon and an obstacle
BoundaryEdges ==
    { << PolyVertex(poly, i), PolyVertex(poly, i + 1) >> :
        << poly, i >> \in { q \in PolygonIds \X (0 .. 7) :
                              /\ q[2] < nVertices(q[1])
                              /\ PolyNeighbour(q[1], q[2] + 1) = ObstacleId } }

\* the corner vertices of the mesh
CornerPoints == { VertexPoint(v) : v \in { w \in VertexIds : isCorner(w) } }

Opposite(o1, o2) ==
    \/ (o1 = CLOCKWISE /\ o2 = ANTICLOCKWISE)
    \/ (o1 = ANTICLOCKWISE /\ o2 = CLOCKWISE)

\* the arcs a-b and c-d cross at a point interior to both
ProperlyCross(a, b, c, d) ==
    /\ Opposite(getOrientation(a, b, c), getOrientation(a, b, d))
    /\ Opposite(getOrientation(c, d, a), getOrientation(c, d, b))

\* the arc a-b stays inside the traversable polygons: it crosses no
\* boundary edge, passes over no corner, and its midpoint is not in an
\* obstacle
Traversable(a, b) ==
    /\ a # b
    /\ \A e \in BoundaryEdges : ~ProperlyCross(a, b, e[1], e[2])
    /\ \A c \in CornerPoints \ {a, b} :
           ~(getOrientation(a, b, c) = COLLINEAR /\ isBounded(c, a, b))
    /\ getPointLocation(fromVector(<< a[1] * b[3] + b[1] * a[3],
                                      a[2] * b[3] + b[2] * a[3],
                                      2 * a[3] * b[3] >>)).type
           # IN_OBSTACLE

\* some traversable chain from p to goal with at most k turns at corners
\* is shorter than budget
RECURSIVE ShorterChain(_, _, _, _)
ShorterChain(p, goal, k, budget) ==
    \/ /\ distance(p, goal) < budget
       /\ Traversable(p, goal)
    \/ /\ k > 0
       /\ \E c \in CornerPoints \ {p, goal} :
              /\ distance(p, c) < budget
              /\ Traversable(p, c)
              /\ ShorterChain(c, goal, k - 1, budget - distance(p, c))

\* C3: when search returns a non-empty path, its reported length is
\* optimal: no path from start to end that stays inside the traversable
\* polygons is shorter.
C3_ReturnedLengthIsOptimal ==
    ReturnedPath =>
        ~ShorterChain(start, end, MaxTurns, result.length - LenTol)

\* the polygons of the mesh that contain a point
PolygonsAt(p) ==
    { poly \in PolygonIds : containsPoint(poly, p).type # OUTSIDE }

\* C4: if the start or the end point is located in an obstacle, search
\* returns the empty path and length 0 as a normal result, and no node is
\* ever popped from the open list or expanded.
C4_ObstacleEndpointNoPath ==
    (PolygonsAt(start) = {} \/ PolygonsAt(end) = {}) =>
        /\ error = NoError
        /\ pc \in {"start", "loop", "done"}
        /\ pc = "loop" => openList = << >>
        /\ pc = "done" => result = [path |-> << >>, length |-> 0]
        /\ popped = << >>
        /\ expanded = << >>

\* search has returned for a start in an obstacle and an end on the mesh
C4_Witness ==
    /\ PolygonsAt(start) = {}
    /\ PolygonsAt(end) # {}
    /\ pc = "done"
    /\ result = [path |-> << >>, length |-> 0]
    /\ popped = << >>

\* C5: if the open list becomes empty before any popped node has its next
\* polygon among the end polygons, search returns the empty path and
\* length 0 and raises no error: pop is never attempted on the empty open
\* list.
C5_EmptyOpenListNoPath ==
    /\ [](error # "Cannot pop from an empty priority queue")
    /\ [][(pc = "loop" /\ openList = << >>) =>
             /\ pc' = "done"
             /\ result' = [path |-> << >>, length |-> 0]
             /\ error' = NoError
             /\ popped' = popped]_vars

\* search has returned the empty path after popping every node of the open
\* list
C5_Witness ==
    /\ pc = "done"
    /\ Len(popped) >= 2
    /\ finalNode = NoParent
    /\ openList = << >>
    /\ result = [path |-> << >>, length |-> 0]
    /\ error = NoError

\* C6: whenever some polygon incident to the start is also among the end
\* polygons, search returns exactly the path << start, end >> with length
\* distance(start, end), without popping or expanding any node, whatever
\* initial nodes were pushed for earlier incident polygons.
C6_SharedPolygonTrivialPath ==
    (\E i \in 1..Len(getPointLocation(start).polygons),
        j \in 1..Len(getPointLocation(end).polygons) :
        getPointLocation(start).polygons[i]
            = getPointLocation(end).polygons[j]) =>
        /\ error = NoError
        /\ pc \in {"start", "done"}
        /\ pc = "done" => result = [path |-> << start, end >>,
                                    length |-> distance(start, end)]
        /\ popped = << >>
        /\ expanded = << >>

\* the trivial path was returned although initial nodes had been pushed
\* for an earlier polygon incident to the start
C6_Witness ==
    /\ pc = "done"
    /\ start # end
    /\ result = [path |-> << start, end >>,
                 length |-> distance(start, end)]
    /\ openList # << >>
    /\ finalNode # NoParent
    /\ popped = << >>

\* how many times x occurs in the sequence s
Occurrences(s, x) == Cardinality({ k \in 1..Len(s) : s[k] = x })

\* the next polygon of the stored node id is among the end polygons
LeadsToEnd(id) ==
    \E j \in 1..Len(endPolygons) : endPolygons[j] = nodes[id].nextPolygon

\* the popped nodes, in the order of their pops: one that leads into an
\* end polygon is the last one popped, ended the search, was not expanded
\* and is the parent of the final node; every other one was popped once
\* and expanded once, unless its expansion threw
PoppedInOrder ==
    \A i \in 1..Len(popped) :
        IF LeadsToEnd(popped[i])
        THEN /\ i = Len(popped)
             /\ pc \in {"done", "error"}
             /\ Occurrences(expanded, popped[i]) = 0
             /\ pc = "done" => /\ finalNode = Len(nodes)
                               /\ nodes[finalNode].parent = popped[i]
        ELSE /\ Occurrences(popped, popped[i]) = 1
             /\ Occurrences(expanded, popped[i]) =
                    IF i = Len(popped) /\ pc = "error" THEN 0 ELSE 1

\* C7: in the search loop the first popped node whose next polygon is
\* among the end polygons ends the search: that node is never expanded,
\* the final node is built from it, and no further node is popped or
\* pushed afterwards; every node popped before it is expanded exactly
\* once.
C7_FirstEndNodeEndsSearch ==
    /\ []PoppedInOrder
    /\ [][pc \notin {"done", "error"}]_vars

\* the search ended at the third or a later pop, with nodes left in the
\* open list
C7_Witness ==
    /\ pc = "done"
    /\ finalNode # NoParent
    /\ Len(popped) >= 3
    /\ LeadsToEnd(Last(popped))
    /\ Len(expanded) = Len(popped) - 1
    /\ openList # << >>

\* the messages genFinalNode can throw
FinalNodeErrors ==
    { "Goal point is not yet in the next polygon",
      "Goal point is not visible from root point",
      "Root is on the right of edge",
      "Next polygon must not be an obstacle" }

\* the final node fn built from the popped node n for the goal
FinalNodeOf(n, fn, goal) ==
    /\ fn.parent = n.id
    /\ fn.h = distance(fn.root, goal)
    /\ IF getOrientation(n.root, n.right, goal) # ANTICLOCKWISE
       THEN /\ fn.root = n.right
            /\ fn.g = n.g + distance(n.root, n.right)
       ELSE IF getOrientation(n.root, n.left, goal) # CLOCKWISE
       THEN /\ fn.root = n.left
            /\ fn.g = n.g + distance(n.root, n.left)
       ELSE /\ fn.root = n.root
            /\ fn.g = n.g

\* C8: genFinalNode on a popped node with root R, interval (right, left)
\* and goal G builds the terminal node with root right and g + distance(R,
\* right) if orientation(R, right, G) is not ANTICLOCKWISE, else with root
\* left and g + distance(R, left) if orientation(R, left, G) is not
\* CLOCKWISE, otherwise with root R and the same g; its parent is the
\* popped node, its h is distance(new root, G), and it never throws.
C8_FinalNodeCases ==
    /\ (popped # << >> /\ LeadsToEnd(Last(popped))) =>
           /\ pc = "done"
           /\ finalNode # NoParent
           /\ FinalNodeOf(nodes[Last(popped)], nodes[finalNode], end)
    /\ (popped # << >> /\ ~LeadsToEnd(Last(popped))) =>
           error \notin FinalNodeErrors

\* a final node that turns at the left end of the interval of a node
\* with a proper interval
C8_Witness ==
    /\ pc = "done"
    /\ popped # << >>
    /\ LeadsToEnd(Last(popped))
    /\ getOrientation(nodes[Last(popped)].root, nodes[Last(popped)].right,
                      end) = ANTICLOCKWISE
    /\ getOrientation(nodes[Last(popped)].root, nodes[Last(popped)].left,
                      end) # CLOCKWISE
    /\ nodes[finalNode].root = nodes[Last(popped)].left
    /\ nodes[finalNode].root # nodes[Last(popped)].root
    /\ nodes[finalNode].g > nodes[Last(popped)].g

\* node b precedes node a in the queue order
Precedes(b, a) ==
    \/ b.g + b.h < a.g + a.h
    \/ (b.g + b.h = a.g + a.h /\ b.g > a.g)

\* C9: after any sequence of push and pop operations on the priority
\* queue, pop returns a node a such that no node b still in the queue
\* precedes a, where b precedes a iff b.f < a.f, or b.f = a.f and
\* b.g > a.g.
C9_PopReturnsFirst ==
    returned # << >> =>
        \A i \in 1..Len(openList) : ~Precedes(openList[i], returned[1])

\* pop returned a node while the queue still held a node with the same f
\* and a smaller g, and a node with a larger f
C9_Witness ==
    /\ returned # << >>
    /\ Len(openList) >= 3
    /\ \E i \in 1..Len(openList) :
           /\ openList[i].g + openList[i].h = returned[1].g + returned[1].h
           /\ openList[i].g < returned[1].g
    /\ \E i \in 1..Len(openList) :
           openList[i].g + openList[i].h > returned[1].g + returned[1].h

\* history[key] is the smallest g of the successors examined so far whose
\* root has that key
HistoryIsSmallest ==
    \A k \in DOMAIN history :
        /\ << k, history[k] >> \in seen
        /\ \A p \in seen : p[1] = k => history[k] <= p[2]

\* one successor is examined: it is pushed, and recorded in the history,
\* exactly when its key is absent or recorded with a g that is not smaller
ExaminedByHistory ==
    pc = "admit" =>
        IF \/ asKey(Head(pending).root) \notin DOMAIN history
           \/ history[asKey(Head(pending).root)] >= Head(pending).g
        THEN /\ Len(openList') = Len(openList) + 1
             /\ \E i \in 1..Len(openList') :
                    /\ openList'[i].id = Len(nodes) + 1
                    /\ openList'[i].root = Head(pending).root
                    /\ openList'[i].g = Head(pending).g
                    /\ openList'[i].nextPolygon = Head(pending).nextPolygon
             /\ DOMAIN history' =
                    DOMAIN history \cup {asKey(Head(pending).root)}
             /\ \A k \in DOMAIN history' :
                    history'[k] = IF k = asKey(Head(pending).root)
                                  THEN Head(pending).g
                                  ELSE history[k]
        ELSE /\ openList' = openList
             /\ history' = history

\* no entry of the history is removed or raised
HistoryNeverIncreases ==
    \A k \in DOMAIN history :
        /\ k \in DOMAIN history'
        /\ history'[k] <= history[k]

\* C10: a successor generated in the search loop is pushed onto the open
\* list if and only if its quantised root key is absent from history or
\* history[key] >= successor.g; exactly in that case history[key] is set
\* to successor.g, and otherwise neither the open list nor history
\* changes.  Hence history[key] is always the smallest g of any successor
\* generated so far with that root key, and never increases.
C10_HistoryAdmission ==
    /\ []HistoryIsSmallest
    /\ [][ExaminedByHistory /\ HistoryNeverIncreases]_vars

\* the pair << key, g >> of a successor that was examined and not pushed
TurnedAway(p) ==
    \A i \in 1..Len(nodes) :
        \/ nodes[i].parent = NoParent
        \/ << asKey(nodes[i].root), nodes[i].g >> # p

\* a successor was turned away because its root had been reached with a
\* smaller g, and a pushed successor was later outdone by a smaller g for
\* the same root
C10_Witness ==
    /\ \E p \in seen : p[2] > history[p[1]] /\ TurnedAway(p)
    /\ \E i \in 1..Len(nodes) :
           /\ i # finalNode
           /\ nodes[i].parent # NoParent
           /\ nodes[i].g > history[asKey(nodes[i].root)]

\* ------------------------------------------------------------------------
\* C11
\* ------------------------------------------------------------------------
\* the successor under examination has a root key that the history holds
Recorded == pc = "admit" /\ asKey(Head(pending).root) \in DOMAIN history

\* the g the history holds for the root key of the successor under
\* examination
RecordedG == history[asKey(Head(pending).root)]

\* a successor whose root was reached before with a smaller g is not pushed
SuppressedWhenWorse ==
    Recorded /\ RecordedG < Head(pending).g =>
        openList' = openList /\ nodes' = nodes /\ history' = history

\* a successor whose root was reached before with the same g is pushed
PushedWhenEqual ==
    Recorded /\ RecordedG = Head(pending).g =>
        /\ Len(openList') = Len(openList) + 1
        /\ Len(nodes') = Len(nodes) + 1

\* C11 (as amended): a successor is not pushed onto the open list when
\* history already holds, for its quantised root key, a g that is strictly
\* less than the successor's g; when history holds a g equal to the
\* successor's g the successor is pushed.
C11_WorseRootsSuppressed == [][SuppressedWhenWorse /\ PushedWhenEqual]_vars

\* C11 (as stated): a successor is not pushed onto the open list when
\* history already holds, for its quantised root key, a g that is less
\* than or equal to the successor's g.
C11_EqualOrWorseRootsSuppressed ==
    [][Recorded /\ RecordedG <= Head(pending).g => openList' = openList]_vars

\* two successors with the same root key and the same g were both pushed
\* (the second while history held that g), and a successor with a larger g
\* for a recorded key was examined and not pushed
C11_Witness ==
    /\ \E i, j \in 1..Len(nodes) :
           /\ i < j
           /\ j # finalNode
           /\ nodes[i].parent # NoParent
           /\ nodes[j].parent # NoParent
           /\ asKey(nodes[i].root) = asKey(nodes[j].root)
           /\ nodes[i].g = nodes[j].g
    /\ \E p \in seen : p[2] > history[p[1]] /\ TurnedAway(p)

\* ------------------------------------------------------------------------
\* C12
\* ------------------------------------------------------------------------
\* what a search reports: a path of some length, no path, or an Error; or
\* nothing when it pops more than MaxPops nodes
Reports(outcome, length) == [outcome |-> outcome, length |-> length]

\* the end of the search once genFinalNode built fin
ReportsFinal(fin) ==
    IF fin.err # NoError THEN Reports("error", 0)
    ELSE Reports("path", f(fin.node))

\* the search loop of search() with every successor pushed (no history),
\* run from the open list `heap` until it ends
RECURSIVE UndedupedLoop(_, _, _)
UndedupedPush(heap, nextId, fuel, built) ==
    IF built.err # NoError THEN Reports("error", 0)
    ELSE UndedupedLoop(pushAll(pop(heap), built.successors, nextId),
                       nextId + Len(built.successors), fuel - 1)

UndedupedLoop(heap, nextId, fuel) ==
    IF isEmpty(heap) THEN Reports("none", 0)
    ELSE IF fuel = 0 THEN Reports("capped", 0)
    ELSE IF Includes(endPolygons, peek(heap).nextPolygon)
    THEN ReportsFinal(genFinalNode(peek(heap), peek(heap).id, end))
    ELSE UndedupedPush(heap, nextId, fuel,
                       genSuccessors(peek(heap), peek(heap).id, end))

\* search() with every successor pushed, after genInitNodes left init
UndedupedFrom(init) ==
    IF init.err # NoError THEN Reports("error", 0)
    ELSE IF init.final # << >>
    THEN Reports("path", distance(start, end))
    ELSE UndedupedLoop(pushAll(<< >>, init.successors, 1),
                       Len(init.successors) + 1, MaxPops)

\* search() with every successor pushed, for the start and end of this
\* search
Undeduped ==
    IF Len(endPolygons) = 0 THEN Reports("none", 0)
    ELSE UndedupedFrom(genInitNodes(start, end, endPolygons))

\* the search with the history is no worse than a search that reported u
NoWorseThan(u) ==
    u.outcome = "path" => ReturnedPath /\ result.length <= u.length

\* C12: for the same mesh, start and end, the search with the history
\* dedupe never reports a worse result than the same search with every
\* successor pushed unconditionally: it finds a path whenever that search
\* does, and its reported length is not greater.
C12_DedupeNoWorse == pc \in {"done", "error"} => NoWorseThan(Undeduped)

\* a search in which the history turned a successor away has returned a
\* path, and the search with every successor pushed finds a path too
C12_Witness ==
    /\ ReturnedPath
    /\ \E p \in seen : p[2] > history[p[1]] /\ TurnedAway(p)
    /\ Undeduped.outcome = "path"

\* ------------------------------------------------------------------------
\* C13
\* ------------------------------------------------------------------------
\* p is a mesh vertex with at least one obstacle sector
AtCornerVertex(p) ==
    \E v \in VertexIds : isCorner(v) /\ equals(VertexPoint(v), p)

\* C13: every interior point of a returned path (neither the first nor
\* the last point) is a mesh vertex that has at least one obstacle sector.
C13_TurnsOnlyAtCorners ==
    ReturnedPath =>
        \A i \in 2 .. (Len(result.path) - 1) : AtCornerVertex(result.path[i])

\* ------------------------------------------------------------------------
\* C14
\* ------------------------------------------------------------------------
\* every search node that exists: pushed or made final (nodes), queued
\* (openList), or built by genSuccessors and not yet examined (pending)
ExistingNodes ==
    { nodes[i] : i \in 1..Len(nodes) }
        \cup { openList[i] : i \in 1..Len(openList) }
        \cup { pending[i] : i \in 1..Len(pending) }

\* C14: every search node that exists at any point of a search (initial,
\* successor or terminal) has a next polygon that is not the obstacle
\* sentinel, and constructing a node with the obstacle as next polygon
\* fails.
C14_NextPolygonNeverObstacle ==
    \A n \in ExistingNodes :
        /\ n.nextPolygon # ObstacleId
        /\ n.nextPolygon \in PolygonIds
        /\ constructorError(n.root, n.right, n.left, ObstacleId) # NoError

\* a search made a terminal node after expanding a node whose next
\* polygon has an edge with the obstacle behind it
C14_Witness ==
    /\ finalNode # NoParent
    /\ nodes[finalNode].parent # NoParent
    /\ \E k \in 1..Len(expanded) :
           \E i \in 0 .. (nVertices(nodes[expanded[k]].nextPolygon) - 1) :
               PolyNeighbour(nodes[expanded[k]].nextPolygon, i) = ObstacleId

\* ------------------------------------------------------------------------
\* The geometry on its own: one point located in the mesh, tested against
\* one polygon, or made the root of a new search node
\* ------------------------------------------------------------------------
\* the point halfway (in the chart) along the arc from a to b
\* the points that are located: the scenario points, the vertices of the
\* mesh, and a point inside every edge
ProbePoints ==
    LET Midpoint(a, b) ==
            fromVector(<< a[1] * b[3] + b[1] * a[3],
                          a[2] * b[3] + b[2] * a[3], 2 * a[3] * b[3] >>)
    IN  StartPoints \cup EndPoints
            \cup { VertexPoint(v) : v \in VertexIds }
            \cup { Midpoint(PolyVertex(q[1], q[2]),
                            PolyVertex(q[1], q[2] + 1)) :
                     q \in { e \in PolygonIds \X (0 .. 3) :
                                e[2] < nVertices(e[1]) } }

InitGeo ==
    /\ start \in ProbePoints
    /\ end = LatticePoint(7, 4)
    /\ pc = "geo"
    /\ endPolygons = << >>
    /\ nodes = << >>
    /\ openList = << >>
    /\ history = << >>
    /\ finalNode = NoParent
    /\ pending = << >>
    /\ result = NoResult
    /\ error = NoError
    /\ popped = << >>
    /\ expanded = << >>
    /\ seen = {}
    /\ returned = << >>

\* Mesh.getPointLocation(start)
GeoLocate ==
    /\ pc = "geo"
    /\ returned' = << getPointLocation(start) >>
    /\ pc' = "located"
    /\ UNCHANGED << start, end, endPolygons, nodes, openList, history,
                    finalNode, pending, result, error, popped, expanded,
                    seen >>

\* Polygon.containsPoint(start) for one polygon, kept in popped
GeoContains ==
    /\ pc = "geo"
    /\ \E poly \in PolygonIds :
           /\ returned' = << containsPoint(poly, start) >>
           /\ popped' = << poly >>
    /\ pc' = "contained"
    /\ UNCHANGED << start, end, endPolygons, nodes, openList, history,
                    finalNode, pending, result, error, expanded, seen >>

\* new SearchNode(null, root, r, l, null, null, nextPolygon, 0, end); the
\* arguments are kept in returned
GeoConstructWith(root, r, l, nextPolygon) ==
    /\ returned' = << [root |-> root, right |-> r, left |-> l,
                       nextPolygon |-> nextPolygon] >>
    /\ IF constructorError(root, r, l, nextPolygon) # NoError
       THEN /\ error' = constructorError(root, r, l, nextPolygon)
            /\ pc' = "rejected"
            /\ UNCHANGED nodes
       ELSE /\ nodes' = << WithId(SearchNode(NoParent, root, r, l,
                                             NoVertex, NoVertex,
                                             nextPolygon, 0, end), 1) >>
            /\ pc' = "constructed"
            /\ UNCHANGED error

\* a node is constructed with start as root and an edge of the mesh, in
\* either direction, as interval
GeoConstruct ==
    /\ pc = "geo"
    /\ \E q \in { e \in PolygonIds \X (0 .. 3) : e[2] < nVertices(e[1]) },
          turned \in BOOLEAN :
           \E nextPolygon \in {q[1], PolyNeighbour(q[1], q[2] + 1)} :
               GeoConstructWith(start,
                   PolyVertex(q[1], IF turned THEN q[2] + 1 ELSE q[2]),
                   PolyVertex(q[1], IF turned THEN q[2] ELSE q[2] + 1),
                   nextPolygon)
    /\ UNCHANGED << start, end, endPolygons, openList, history, finalNode,
                    pending, result, popped, expanded, seen >>

\* Point.equals on latitudes and longitudes that differ by less than
\* EPSILON.  A coordinate is a whole number of ticks, Ticks of them making
\* one unit, so a value of t ticks is below EPSILON iff |t| < Ticks * EPSILON
\* (isZero), and a latitude is polar iff it is that near to 90 degrees
\* (isPolar: isEqual(Math.abs(lat), 90)).  A point is << lat, lon >>.
Ticks == 2

equalsLatLon(a, b) ==
    LET near(value) == Abs(value) < Ticks * EPSILON
    IN  IF near(a[1] - b[1])
        THEN near(Abs(a[1]) - Deg90 * Ticks) \/ near(a[2] - b[2])
        ELSE FALSE

\* a.equals(b) and b.equals(a) for two points at or near a pole or near the
\* equator; the points and the two results are kept in returned
GeoEquals ==
    /\ pc = "geo"
    /\ \E a, b \in ({ Deg90 * Ticks - k : k \in 0 .. (2 * Ticks) }
                       \cup { -(Deg90 * Ticks), 0, 1 })
                    \X { 0, 1, Ticks * EPSILON } :
           returned' = << a, b, equalsLatLon(a, b), equalsLatLon(b, a) >>
    /\ pc' = "compared"
    /\ UNCHANGED << start, end, endPolygons, nodes, openList, history,
                    finalNode, pending, result, error, popped, expanded,
                    seen >>

SpecGeo ==
    InitGeo /\ [][GeoLocate \/ GeoContains \/ GeoConstruct \/ GeoEquals]_vars

\* the searches and the single constructions together
SpecNode ==
    (Init \/ InitGeo)
        /\ [][Next \/ GeoLocate \/ GeoContains \/ GeoConstruct]_vars

\* ------------------------------------------------------------------------
\* C15
\* ------------------------------------------------------------------------
\* a construction was attempted with the arguments in returned
Attempted == pc \in {"constructed", "rejected"}

\* the root of the attempted construction is clockwise of right -> left
AttemptedClockwise ==
    /\ Attempted
    /\ getOrientation(returned[1].root, returned[1].right, returned[1].left)
           = CLOCKWISE

\* C15: constructing a search node whose root is CLOCKWISE of the directed
\* arc right -> left fails with an error and creates no node; every node
\* that exists (in the open list, in a parent chain, or pending) has
\* orientation(root, right, left) different from CLOCKWISE.
C15_ClockwiseRootRejected ==
    /\ AttemptedClockwise =>
           /\ pc = "rejected"
           /\ error = "Root is on the right of edge"
           /\ nodes = << >>
    /\ \A n \in ExistingNodes :
           getOrientation(n.root, n.right, n.left) # CLOCKWISE

\* a construction with a clockwise root has failed
C15_Witness ==
    /\ AttemptedClockwise
    /\ error = "Root is on the right of edge"
    /\ nodes = << >>

\* ------------------------------------------------------------------------
\* C16
\* ------------------------------------------------------------------------
\* every polygon of the mesh reports OUTSIDE for p
OutsideAll(p) ==
    \A poly \in PolygonIds : containsPoint(poly, p).type = OUTSIDE

\* the location pl answers for the point p as claimed
SoundLocation(p, pl) ==
    /\ pl.type = IN_OBSTACLE <=> OutsideAll(p)
    /\ pl.polygons = << >> <=> pl.type = IN_OBSTACLE
    /\ \A i \in 1..Len(pl.polygons) :
           /\ pl.polygons[i] # ObstacleId
           /\ pl.polygons[i] \in PolygonIds

\* C16: getPointLocation(p) returns type IN_OBSTACLE exactly when every
\* polygon of the mesh reports OUTSIDE for p, and its polygons list is
\* empty exactly in that case; for every other result the polygons list is
\* non-empty and contains only traversable polygons.
C16_ObstacleIffNoPolygon == pc = "located" => SoundLocation(start, returned[1])

\* a point was located in an obstacle
C16_Witness ==
    /\ pc = "located"
    /\ returned[1].type = IN_OBSTACLE
    /\ OutsideAll(start)

\* ------------------------------------------------------------------------
\* C17
\* ------------------------------------------------------------------------
\* the positions of polygon poly's ring
Ring(poly) == 0 .. (nVertices(poly) - 1)

\* the tested point is the vertex at position i of the tested polygon
ProbedVertex(i) ==
    /\ pc = "contained"
    /\ i \in Ring(popped[1])
    /\ start = PolyVertex(popped[1], i)

\* C17: for every polygon P and every vertex v of P's ring, at whatever
\* position of the ring, containsPoint(P, v) returns ON_VERTEX with
\* verts = [v] and adjPoly = the obstacle sentinel.
C17_VertexRoundTrip ==
    \A i \in 0 .. 3 :
        ProbedVertex(i) =>
            returned[1] = PolyContainment(ON_VERTEX, ObstacleId,
                              << PolyVertexId(popped[1], i) >>)

\* the last vertex of a ring was tested: the edge that ends at it reported
\* it collinear and bounded one iteration before
C17_Witness ==
    /\ ProbedVertex(nVertices(popped[1]) - 1)
    /\ returned[1].type = ON_VERTEX
    /\ getOrientation(PolyVertex(popped[1], nVertices(popped[1]) - 2),
                      start, start) = COLLINEAR
    /\ isBounded(start, PolyVertex(popped[1], nVertices(popped[1]) - 2),
                 start)

\* ------------------------------------------------------------------------
\* C18
\* ------------------------------------------------------------------------
\* the tested point lies inside the edge (V[i], V[i+1]) of the tested
\* polygon
ProbedEdge(i) ==
    /\ pc = "contained"
    /\ i \in Ring(popped[1])
    /\ start # PolyVertex(popped[1], i)
    /\ start # PolyVertex(popped[1], i + 1)
    /\ getOrientation(PolyVertex(popped[1], i), PolyVertex(popped[1], i + 1),
                      start) = COLLINEAR
    /\ isBounded(start, PolyVertex(popped[1], i),
                 PolyVertex(popped[1], i + 1))

\* the polygons other than poly whose ring holds both ends of poly's edge
\* (V[i], V[i+1])
SharingEdge(poly, i) ==
    { q \in PolygonIds \ {poly} :
        \E j, k \in Ring(q) :
            /\ PolyVertexId(q, j) = PolyVertexId(poly, i)
            /\ PolyVertexId(q, k) = PolyVertexId(poly, i + 1) }

\* a is the polygon on the far side of poly's edge (V[i], V[i+1]): the
\* polygon that shares the edge, the obstacle when there is none
FarSide(poly, i, a) ==
    IF SharingEdge(poly, i) = {} THEN a = ObstacleId
    ELSE SharingEdge(poly, i) = {a}

\* containsPoint reported ON_EDGE with the ends of the edge (V[i], V[i+1])
OnEdgeOf(i) ==
    /\ returned[1].type = ON_EDGE
    /\ returned[1].verts = << PolyVertexId(popped[1], i),
                              PolyVertexId(popped[1], i + 1) >>

\* C18 (as amended): when containsPoint reports ON_EDGE for a point lying
\* on the edge (V[i], V[(i+1) mod n]), verts are that edge's two endpoints
\* and adjPoly is the polygon on the far side of that edge, which the
\* neighbour ring holds at N[(i+1) mod n].
C18_EdgeNeighbourAtNextIndex ==
    \A i \in 0 .. 3 :
        ProbedEdge(i) =>
            /\ OnEdgeOf(i)
            /\ returned[1].adjPoly = PolyNeighbour(popped[1], i + 1)
            /\ FarSide(popped[1], i, returned[1].adjPoly)

\* C18 (as stated): when containsPoint reports ON_EDGE for a point lying
\* on the edge (V[i], V[(i+1) mod n]), verts are that edge's two endpoints
\* and adjPoly is N[i].
C18_EdgeNeighbourAtSameIndex ==
    \A i \in 0 .. 3 :
        ProbedEdge(i) =>
            /\ OnEdgeOf(i)
            /\ returned[1].adjPoly = PolyNeighbour(popped[1], i)

\* a point inside an edge shared by two polygons was tested, and the
\* neighbour at the index of the edge's first vertex is another polygon
C18_Witness ==
    \E i \in 0 .. 3 :
        /\ ProbedEdge(i)
        /\ OnEdgeOf(i)
        /\ returned[1].adjPoly # ObstacleId
        /\ PolyNeighbour(popped[1], i) # returned[1].adjPoly

\* ------------------------------------------------------------------------
\* The driver: main.ts runs the scenarios of a scenario file in order
\* ------------------------------------------------------------------------
\* In this specification pending holds the scenarios the generator has not
\* yielded yet, popped the labels of the scenarios yielded, expanded the
\* labels of the scenarios whose search was called, history the map
\* `meshes` (map file -> the vertices read from it), seen the output files
\* as pairs << << map file, label >>, lines >>, a line being the pair
\* << lat, lon >> of a point, and error the error that ended the program.
\* A scenario's label is its position in the file.  The out directory is
\* empty at the start, or holds the file an earlier run wrote for the
\* first scenario.
\*
\* A map file is given by the incident-polygon lists of its vertex lines;
\* it declares one polygon (P = 1), and its polygon lines are well formed.
\* What search does on a loaded mesh is an input of the scenario: it
\* returns a path, returns [[], 0], or throws (the states with pc = "error"
\* of Spec).

\* largest number of scenarios in a scenario file
MaxScenarios == 2

\* largest number of incident polygons on a vertex line
MaxIncident == 3

\* the scenario files.  A vertex line holds up to MaxIncident incident
\* polygons; in a map file one vertex line varies, two are << 0, -1 >>.
ScenarioFiles ==
    LET VertexLines ==
            UNION { [1..n -> { ObstacleId, 0 }] : n \in 1..MaxIncident }
        MapFiles ==
            { << l, << 0, ObstacleId >>, << 0, ObstacleId >> >> :
                l \in VertexLines }
    IN  UNION { [1..n -> [map : MapFiles,
                          search : { "path", "none", "throws" }]] :
                  n \in 1..MaxScenarios }

\* Mesh.read(file): the message of the error it throws, NoError when it
\* returns.  The Vertex constructor asserts polygons.length > 1 for each
\* vertex line; setPolygons then asserts -1 <= pIndex < P for each entry.
\* Nothing else looks at the incident polygons.
readError(file) ==
    IF \E v \in DOMAIN file : ~(Len(file[v]) > 1)
    THEN "Vertices must have at least 2 polygons"
    ELSE IF \E v \in DOMAIN file : \E i \in DOMAIN file[v] :
                ~(file[v][i] >= ObstacleId /\ file[v][i] < 1)
    THEN "Polygon index is out of bounds for the mesh polygons array."
    ELSE NoError

InitDriver ==
    /\ pending \in ScenarioFiles
    /\ pc = "driver"
    /\ start = NoPoint
    /\ end = NoPoint
    /\ endPolygons = << >>
    /\ nodes = << >>
    /\ openList = << >>
    /\ history = << >>
    /\ finalNode = NoParent
    /\ result = NoResult
    /\ error = NoError
    /\ popped = << >>
    /\ expanded = << >>
    /\ seen \in { {}, { << << pending[1].map, 1 >>, << << 0, 0 >> >> >> } }
    /\ returned = << >>

\* one iteration of the for await loop, for the scenario scen with the
\* label `label`: the mesh is read unless meshes has it, the search runs,
\* and the path, when there is one, is written to the output file.  No
\* statement of the loop is inside a try block, so an error thrown by
\* read or by search ends the program.
RunScenario ==
    LET scen == Head(pending)
        label == Len(popped) + 1
        readErr == IF scen.map \in DOMAIN history THEN NoError
                   ELSE readError(scen.map)
    IN  /\ pc = "driver"
        /\ pending # << >>
        /\ popped' = Append(popped, label)
        /\ pending' = Tail(pending)
        /\ IF readErr # NoError
           THEN /\ error' = readErr
                /\ pc' = "crashed"
                /\ UNCHANGED << history, expanded, seen >>
           ELSE /\ history' = historySet(history, scen.map, scen.map)
                /\ expanded' = Append(expanded, label)
                /\ IF scen.search = "throws"
                   THEN /\ error' = "Observable range is invalid"
                        /\ pc' = "crashed"
                        /\ UNCHANGED seen
                   ELSE /\ seen' =
                              IF scen.search = "none" THEN seen
                              ELSE { file \in seen :
                                       file[1] # << scen.map, label >> }
                                   \cup { << << scen.map, label >>,
                                             << << lat(LatticePoint(7, 4)),
                                                   lon(LatticePoint(7, 4)) >>,
                                                << lat(LatticePoint(8, 5)),
                                                   lon(LatticePoint(8, 5)) >> >> >> }
                        /\ UNCHANGED << error, pc >>
        /\ UNCHANGED << start, end, endPolygons, nodes, openList, finalNode,
                        result, returned >>

\* the generator is exhausted: "All scenarios processed."
DriverEnd ==
    /\ pc = "driver"
    /\ pending = << >>
    /\ pc' = "exited"
    /\ UNCHANGED << start, end, endPolygons, nodes, openList, history,
                    finalNode, pending, result, error, popped, expanded,
                    seen, returned >>

SpecDriver == InitDriver /\ [][RunScenario \/ DriverEnd]_vars

\* ------------------------------------------------------------------------
\* C19
\* ------------------------------------------------------------------------
\* some vertex line of the map file has two adjacent entries that are both
\* the obstacle
HasAdjacentObstacles(file) ==
    \E v \in DOMAIN file : \E i \in 1 .. (Len(file[v]) - 1) :
        file[v][i] = ObstacleId /\ file[v][i + 1] = ObstacleId

\* C19 (as stated): Mesh.read rejects every mesh file in which some
\* vertex's incident-polygon list has two adjacent entries that are both
\* -1, wherever in the list the pair occurs: no such file is ever held as
\* a loaded mesh.
C19_AdjacentObstaclesRejected ==
    pc \in { "driver", "crashed", "exited" } =>
        \A file \in DOMAIN history : ~HasAdjacentObstacles(file)

\* ------------------------------------------------------------------------
\* C20
\* ------------------------------------------------------------------------
\* C20 (as stated): when mesh loading or the search of one scenario fails
\* with an error, the driver still runs every later scenario of the
\* scenario file: the driver never ends with a scenario left in the file.
C20_LaterScenariosRun ==
    pc \in { "crashed", "exited" } => pending = << >>

\* ------------------------------------------------------------------------
\* C21
\* ------------------------------------------------------------------------
\* the output file of the scenario being processed holds exactly `lines`
\* after the step
OutputHolds(lines) ==
    \E file \in seen' :
        /\ file = << << Head(pending).map, Len(popped) + 1 >>, lines >>
        /\ \A other \in seen' : other[1] = file[1] => other = file

\* C21 (as stated): after the driver has processed a scenario, that
\* scenario's output file exists and holds exactly one line per point of
\* the returned path, in path order; when no path is found the file exists
\* and is empty, so content left by an earlier run never survives.
C21_OutputFileMatchesPath ==
    [][(pc = "driver" /\ pending # << >> /\ pc' = "driver") =>
          IF Head(pending).search = "none" THEN OutputHolds(<< >>)
          ELSE OutputHolds(<< << lat(LatticePoint(7, 4)),
                                 lon(LatticePoint(7, 4)) >>,
                              << lat(LatticePoint(8, 5)),
                                 lon(LatticePoint(8, 5)) >> >>)]_vars

\* ------------------------------------------------------------------------
\* C22
\* ------------------------------------------------------------------------
\* a step of pop on the empty queue: the queue was empty, nothing was
\* pushed and peek returned nothing new
PopOnEmpty ==
    /\ pc = "queue"
    /\ openList = << >>
    /\ openList' = << >>
    /\ pending' = pending

\* a step of peek on the empty queue
PeekOnEmpty ==
    /\ pc = "queue"
    /\ openList = << >>
    /\ pending' # pending

\* C22: calling pop on an empty priority queue fails with an error instead
\* of returning a value and leaves the queue empty (size 0), while peek on
\* an empty queue returns null without failing.
C22_EmptyPopFailsPeekNull ==
    [][/\ PopOnEmpty =>
              /\ error' = "Cannot pop from an empty priority queue"
              /\ pc' = "error"
              /\ returned' = returned
              /\ size(openList') = 0
       /\ PeekOnEmpty =>
              /\ pending' = << << >> >>
              /\ error' = NoError
              /\ pc' = "queue"
              /\ size(openList') = 0]_vars

\* peek was called on the empty queue, and then pop
C22_Witness ==
    /\ pc = "error"
    /\ error = "Cannot pop from an empty priority queue"
    /\ openList = << >>
    /\ pending = << << >> >>

\* ------------------------------------------------------------------------
\* C23
\* ------------------------------------------------------------------------
\* a value of t ticks is within EPSILON of zero
WithinEpsilon(t) == Abs(t) < Ticks * EPSILON

\* the point << lat, lon >> is polar
Polar(p) == WithinEpsilon(Abs(p[1]) - Deg90 * Ticks)

\* C23 (as stated): Point equality holds exactly when the two latitudes
\* agree within EPSILON and either both points are polar or the two
\* longitudes agree within EPSILON; and a.equals(b) = b.equals(a).
C23_EqualsSymmetricAndExact ==
    pc = "compared" =>
        /\ returned[3] <=>
               /\ WithinEpsilon(returned[1][1] - returned[2][1])
               /\ \/ Polar(returned[1]) /\ Polar(returned[2])
                  \/ WithinEpsilon(returned[1][2] - returned[2][2])
        /\ returned[3] = returned[4]

\* ------------------------------------------------------------------------
\* The expansion that was made last
\* ------------------------------------------------------------------------
\* genSuccessors has returned for the node popped last, which is
\* returned[1]
JustExpanded ==
    /\ pc \in { "admit", "loop" }
    /\ returned # << >>
    /\ expanded # << >>
    /\ Last(expanded) = returned[1].id

\* the projection genSuccessors made for the node
ProjectionOf(node) ==
    project(node,
        containsPoint(node.nextPolygon, negate(node.root)).type # OUTSIDE)

\* ------------------------------------------------------------------------
\* C24
\* ------------------------------------------------------------------------
\* the edge (V[i], V[i+1]) of poly has a polygon on its far side
HasFarSide(poly, i) == SharingEdge(poly, i) # {}

\* the indices of range in increasing order
IndicesOf(range) == [k \in 1 .. (range[2] - range[1]) |-> range[1] + k - 1]

\* the indices of range, in increasing order, whose edge has a polygon on
\* its far side
TraversableIndices(poly, range) ==
    SelectSeq(IndicesOf(range), LAMBDA i : HasFarSide(poly, i))

\* child is the child of node for the edge index i of range
IsChildFor(child, node, r, l, range, newRoot, i) ==
    /\ child.parent = node.id
    /\ child.root = newRoot
    /\ child.right =
           IF i = range[1] THEN r ELSE PolyVertex(node.nextPolygon, i)
    /\ child.left =
           IF i = range[2] - 1 THEN l
           ELSE PolyVertex(node.nextPolygon, i + 1)
    /\ FarSide(node.nextPolygon, i, child.nextPolygon)

\* children holds exactly one child for each traversable index of range,
\* in increasing order
SplitsExactly(children, node, r, l, range, newRoot) ==
    /\ Len(children) = Len(TraversableIndices(node.nextPolygon, range))
    /\ \A k \in 1 .. Len(children) :
           /\ IsChildFor(children[k], node, r, l, range, newRoot,
                  TraversableIndices(node.nextPolygon, range)[k])
           /\ children[k].g = node.g + distance(node.root, newRoot)

\* what splitSuccessors returns for the observable range of the projection
\* p of node
ObservableSplit(node, p) ==
    splitSuccessors(node, node.id, p.newRightPoint, p.newLeftPoint,
                    p.observableRange, node.root, end).successors

\* what splitSuccessors returns for the non-observable right range
RightSplit(node, p) ==
    splitSuccessors(node, node.id, VertexPoint(node.rightVertex),
                    p.newRightPoint, p.nonObservableRightRange, node.right,
                    end).successors

\* what splitSuccessors returns for the non-observable left range
LeftSplit(node, p) ==
    splitSuccessors(node, node.id, p.newLeftPoint,
                    VertexPoint(node.leftVertex), p.nonObservableLeftRange,
                    node.left, end).successors

\* genSuccessors pivots node around its right end, around its left end
PivotsRight(node, p) ==
    /\ equals(node.right, VertexPoint(node.rightVertex))
    /\ isCorner(node.rightVertex)
    /\ p.nonObservableRightRange[2] > p.nonObservableRightRange[1]

PivotsLeft(node, p) ==
    /\ equals(node.left, VertexPoint(node.leftVertex))
    /\ isCorner(node.leftVertex)
    /\ p.nonObservableLeftRange[2] > p.nonObservableLeftRange[1]

\* the calls of splitSuccessors that genSuccessors made for node split
\* exactly, and the observable children keep the root and the g of node
SplitsOf(node, p) ==
    /\ SplitsExactly(ObservableSplit(node, p), node, p.newRightPoint,
                     p.newLeftPoint, p.observableRange, node.root)
    /\ \A k \in 1 .. Len(ObservableSplit(node, p)) :
           /\ ObservableSplit(node, p)[k].root = node.root
           /\ ObservableSplit(node, p)[k].g = node.g
    /\ PivotsRight(node, p) =>
           SplitsExactly(RightSplit(node, p), node,
                         VertexPoint(node.rightVertex), p.newRightPoint,
                         p.nonObservableRightRange, node.right)
    /\ PivotsLeft(node, p) =>
           SplitsExactly(LeftSplit(node, p), node, p.newLeftPoint,
                         VertexPoint(node.leftVertex),
                         p.nonObservableLeftRange, node.left)

\* C24: splitSuccessors over an edge-index range [a, b) of the next polygon
\* yields exactly one child for each index i in [a, b) whose neighbour
\* across edge (V[i], V[i+1]) is traversable, in increasing order of i, and
\* none for the other indices; the child's right point is the given right
\* point if i = a and V[i] otherwise, its left point is the given left
\* point if i = b-1 and V[i+1] otherwise, its parent is the expanded node,
\* and for the observable range its root and g equal the parent's.
C24_SplitSuccessorsExact ==
    JustExpanded => SplitsOf(returned[1], ProjectionOf(returned[1]))

\* the observable range of the expansion had two edges that got a child
\* each: the second child's right point and the first child's left point
\* are the vertex between them
C24_Witness ==
    /\ JustExpanded
    /\ Len(ObservableSplit(returned[1], ProjectionOf(returned[1]))) >= 2
    /\ ObservableSplit(returned[1], ProjectionOf(returned[1]))[1].left
           = ObservableSplit(returned[1], ProjectionOf(returned[1]))[2].right

\* ------------------------------------------------------------------------
\* C25
\* ------------------------------------------------------------------------
\* vertex v has an obstacle among its incident polygons
CornerVertex(v) ==
    \E i \in 1 .. Len(At(VertexPolygons, v)) :
        At(VertexPolygons, v)[i] = ObstacleId

\* the interval end `point` of a node is the vertex v, a corner, and the
\* non-observable range on its side is not empty
MayPivot(point, v, range) ==
    /\ point = VertexPoint(v)
    /\ CornerVertex(v)
    /\ range[2] > range[1]

\* child is a successor of node that keeps the root, or that is pivoted
\* around an end of the interval which may be pivoted around; its g is
\* the g of node plus the distance between the roots
KeepsRootOrPivots(child, node, p) ==
    /\ \/ child.root = node.root
       \/ /\ child.root = node.right
          /\ MayPivot(node.right, node.rightVertex,
                      p.nonObservableRightRange)
       \/ /\ child.root = node.left
          /\ MayPivot(node.left, node.leftVertex, p.nonObservableLeftRange)
    /\ child.g = node.g + distance(node.root, child.root)
    /\ child.g >= node.g

\* the successors genSuccessors returns for the stored node
SuccessorsOfNode(node) == genSuccessors(node, node.id, end).successors

AfterInitNodes == pc = "loop" /\ popped = << >> /\ finalNode = NoParent

\* point p lies on the edge (V[i], V[i+1]) of poly, its ends included
LiesOnEdge(p, poly, i) ==
    \/ p = PolyVertex(poly, i)
    \/ p = PolyVertex(poly, i + 1)
    \/ /\ getOrientation(p, PolyVertex(poly, i), PolyVertex(poly, i + 1))
              = COLLINEAR
       /\ isBounded(p, PolyVertex(poly, i), PolyVertex(poly, i + 1))

\* the pairs << polygon incident to the start, edge index >> through which
\* an initial node leaves the start
InitEdges ==
    { q \in PolygonsAt(start) \X (0 .. 3) :
        /\ q[2] < nVertices(q[1])
        /\ ~LiesOnEdge(start, q[1], q[2])
        /\ HasFarSide(q[1], q[2]) }

\* node is the initial node for the edge q
IsInitNodeFor(node, q) ==
    /\ node.parent = NoParent
    /\ node.root = start
    /\ node.g = 0
    /\ node.right = PolyVertex(q[1], q[2])
    /\ node.left = PolyVertex(q[1], q[2] + 1)
    /\ FarSide(q[1], q[2], node.nextPolygon)

\* C26: when none of the polygons incident to the start S is an end
\* polygon, genInitNodes pushes exactly one node for each pair (incident
\* polygon P, edge (V[i], V[i+1]) of P) such that S does not lie on the
\* edge and the neighbour across the edge is traversable, and pushes
\* nothing else; each pushed node has parent = null, root = S, g = 0 and
\* interval (V[i], V[i+1]).
C26_InitNodesExact ==
    AfterInitNodes =>
        /\ \A q \in InitEdges :
               Cardinality({ k \in 1 .. Len(openList) :
                               IsInitNodeFor(openList[k], q) }) = 1
        /\ \A k \in 1 .. Len(openList) :
               \E q \in InitEdges : IsInitNodeFor(openList[k], q)
        /\ Len(openList) = Cardinality(InitEdges)

\* the start lies on an edge between two polygons, which is skipped in
\* both, and nodes were pushed through other edges of both polygons
C26_Witness ==
    /\ AfterInitNodes
    /\ Cardinality(PolygonsAt(start)) = 2
    /\ \E q \in PolygonsAt(start) \X (0 .. 3) :
           /\ q[2] < nVertices(q[1])
           /\ LiesOnEdge(start, q[1], q[2])
           /\ HasFarSide(q[1], q[2])
    /\ \A poly \in PolygonsAt(start) : \E q \in InitEdges : q[1] = poly

\* ------------------------------------------------------------------------
\* C27
\* ------------------------------------------------------------------------
\* genSuccessors projected the node without reversing the rays
NotReversed(node) ==
    containsPoint(node.nextPolygon, negate(node.root)).type = OUTSIDE

\* the local index of the right vertex of the node's interval in the next
\* polygon, counted from 1 to n so that it follows the index of the left
\* vertex, as the scan counts it
RightLocal(node) ==
    CHOOSE i \in 1 .. nVertices(node.nextPolygon) :
        PolyVertexId(node.nextPolygon, i) = node.rightVertex

\* edge index i of the next polygon is the edge the node entered through
IsEntryEdge(node, i) ==
    { PolyVertexId(node.nextPolygon, i),
      PolyVertexId(node.nextPolygon, i + 1) }
        = { node.rightVertex, node.leftVertex }

\* the three ranges of projection p lie between rl and ll as C27 says
RangesWithin(p, rl, ll) ==
    /\ rl <= p.observableRange[1]
    /\ p.observableRange[1] < p.observableRange[2]
    /\ p.observableRange[2] <= ll
    /\ p.nonObservableRightRange[1] = rl
    /\ p.observableRange[1] <= p.nonObservableRightRange[2]
    /\ p.nonObservableRightRange[2] <= p.observableRange[1] + 1
    /\ p.nonObservableLeftRange[2] = ll
    /\ p.observableRange[2] - 1 <= p.nonObservableLeftRange[1]
    /\ p.nonObservableLeftRange[1] <= p.observableRange[2]
    /\ \A i \in rl .. (ll - 1) :
           \/ p.nonObservableRightRange[1] <= i
                  /\ i < p.nonObservableRightRange[2]
           \/ p.observableRange[1] <= i /\ i < p.observableRange[2]
           \/ p.nonObservableLeftRange[1] <= i
                  /\ i < p.nonObservableLeftRange[2]

\* the ranges of projection p of the node, and the successors made from
\* them, keep off the entry edge
ProjectsWithin(node, p, rl, n) ==
    /\ PolyVertexId(node.nextPolygon, rl + n - 1) = node.leftVertex
    /\ IsEntryEdge(node, rl + n - 1)
    /\ RangesWithin(p, rl, rl + n - 1)
    /\ \A i \in rl .. (rl + n - 2) : ~IsEntryEdge(node, i)
    /\ \A i, j \in rl .. (rl + n - 2) : i % n = j % n => i = j
    /\ \A k \in 1 .. Len(SuccessorsOfNode(node)) :
           { SuccessorsOfNode(node)[k].rightVertex,
             SuccessorsOfNode(node)[k].leftVertex }
               # { node.rightVertex, node.leftVertex }

\* C27: whenever project returns in the non-reversed case, with rl and ll
\* the local indices of the entry edge's right and left vertices in the
\* next polygon (ll - rl = n - 1), the observable range [a, b) satisfies
\* rl <= a < b <= ll, the non-observable right range is [rl, a') with
\* a <= a' <= a + 1, and the non-observable left range is [b', ll) with
\* b - 1 <= b' <= b; the three ranges cover every edge index in [rl, ll),
\* no index of [rl, ll) names an edge twice or names the entry edge, and no
\* successor interval lies on the entry edge.
C27_ProjectionRanges ==
    (JustExpanded /\ NotReversed(returned[1])) =>
        ProjectsWithin(returned[1], ProjectionOf(returned[1]),
                       RightLocal(returned[1]),
                       nVertices(returned[1].nextPolygon))

\* a projection without reversal where both rays leave the next polygon
\* inside an edge: the right range ends one past a, the left range begins
\* one before b, and both are not empty
C27_Witness ==
    /\ JustExpanded
    /\ NotReversed(returned[1])
    /\ ProjectionOf(returned[1]).nonObservableRightRange[2]
           = ProjectionOf(returned[1]).observableRange[1] + 1
    /\ ProjectionOf(returned[1]).nonObservableLeftRange[1]
           = ProjectionOf(returned[1]).observableRange[2] - 1
    /\ ProjectionOf(returned[1]).observableRange[1]
           > RightLocal(returned[1])

\* ------------------------------------------------------------------------
\* C28
\* ------------------------------------------------------------------------
\* what containsPoint reports for a point strictly inside the edge
\* (V[i], V[i+1]) of poly
AcrossEdge(poly, i) ==
    containsPoint(poly,
        fromVector(<< PolyVertex(poly, i)[1] + PolyVertex(poly, i + 1)[1],
                      PolyVertex(poly, i)[2] + PolyVertex(poly, i + 1)[2],
                      PolyVertex(poly, i)[3] + PolyVertex(poly, i + 1)[3] >>))

\* the node was made for the edge (V[i], V[i+1]) of poly
MadeForEdge(node, poly, i) ==
    /\ node.rightVertex = PolyVertexId(poly, i)
    /\ node.leftVertex = PolyVertexId(poly, i + 1)

\* the next polygon of a node made for an edge of poly is the polygon
\* containsPoint reports across that edge, the ring entry after the edge's
\* first vertex
AgreesOnNeighbour(node, poly) ==
    \E i \in Ring(poly) :
        /\ MadeForEdge(node, poly, i)
        /\ AcrossEdge(poly, i).type = ON_EDGE
        /\ AcrossEdge(poly, i).adjPoly = node.nextPolygon
        /\ node.nextPolygon = PolyNeighbour(poly, i + 1)

\* C28: containsPoint and node generation index the neighbour ring
\* consistently: for every polygon and every i, the adjPoly that
\* containsPoint reports for a point on the edge (V[i], V[(i+1) mod n]),
\* the wrap-around edge (V[n-1], V[0]) included, is the ring entry
\* neighbours[(i+1) mod n], and that is the next polygon of the nodes that
\* splitSuccessors and genInitNodes make for that edge.
C28_NeighbourRingConsistent ==
    /\ \A poly \in PolygonIds : \A i \in Ring(poly) :
           AcrossEdge(poly, i).adjPoly = PolyNeighbour(poly, i + 1)
    /\ JustExpanded =>
           \A k \in 1 .. Len(SuccessorsOfNode(returned[1])) :
               AgreesOnNeighbour(SuccessorsOfNode(returned[1])[k],
                                 returned[1].nextPolygon)
    /\ AfterInitNodes =>
           \A k \in 1 .. Len(openList) :
               \E poly \in PolygonsAt(start) :
                   AgreesOnNeighbour(openList[k], poly)

\* an expansion made a successor for the wrap-around edge (V[n-1], V[0])
\* of its polygon, where the ring entry at n-1 is another polygon than the
\* one across the edge
C28_Witness ==
    /\ JustExpanded
    /\ \E k \in 1 .. Len(SuccessorsOfNode(returned[1])) :
           /\ MadeForEdge(SuccessorsOfNode(returned[1])[k],
                          returned[1].nextPolygon,
                          nVertices(returned[1].nextPolygon) - 1)
           /\ SuccessorsOfNode(returned[1])[k].nextPolygon
                  # PolyNeighbour(returned[1].nextPolygon,
                                  nVertices(returned[1].nextPolygon) - 1)

\* ------------------------------------------------------------------------
\* C29
\* ------------------------------------------------------------------------
\* how many times the heap holds value v
Count(heap, v) == Cardinality({ i \in 1 .. Len(heap) : heap[i] = v })

\* heap `after` holds what heap `before` holds and d more of value v, and
\* its size is larger by d
Holds(after, before, v, d) ==
    /\ \A w \in [g : QueueG, h : QueueH] :
           Count(after, w) = Count(before, w) + (IF w = v THEN d ELSE 0)
    /\ size(after) = size(before) + d

\* C29: a push adds one occurrence of the pushed element to the priority
\* queue and a successful pop removes one occurrence of the element it
\* returns; every other element stays as many times as it was there, and
\* a failed pop and a peek change nothing.  So after any sequence of
\* pushes and pops the queue holds exactly the pushed elements that have
\* not been popped, each as many times as it was pushed, and its size is
\* the number of pushes minus the number of successful pops.
C29_QueueKeepsElements ==
    [][pc = "queue" =>
          IF pc' = "error" \/ pending' # pending
          THEN openList' = openList
          ELSE IF returned' = << >>
          THEN \E v \in [g : QueueG, h : QueueH] :
                   Holds(openList', openList, v, 1)
          ELSE Holds(openList', openList, returned'[1], -1)]_vars

\* a pop returned an element of which the queue still holds two equal
\* copies, beside other elements
C29_Witness ==
    /\ pc = "queue"
    /\ returned # << >>
    /\ Count(openList, returned[1]) = 2
    /\ size(openList) >= 4

\* ------------------------------------------------------------------------
\* C30
\* ------------------------------------------------------------------------
\* search() has returned: a final node was set or the open list was empty
Returned == pc = "done" /\ (finalNode # NoParent \/ isEmpty(openList))

\* search() has returned or an assertion has thrown
Terminated == Returned \/ pc = "error"

=============================================================================
